---- MODULE Spec2Model ----
(***************************************************************************)
(* The entity resolver (backend/app/ingest/base.py), the gazetteer adapter *)
(* (backend/app/ingest/pleiades.py) and the standalone connection script   *)
(* (backend/scripts/ingest_pleiades_connections.py) as state machines.     *)
(*                                                                         *)
(* Strings are sequences of tokens (one token is one character or one      *)
(* fixed substring that the code only ever handles whole, such as the      *)
(* "pleiades:" prefix), so that formatting, prefix tests, replace() and    *)
(* split() are computed, not assumed.  Python's None is the token          *)
(* sequence None.  Confidence scores are in hundredths (0.95 is 95).       *)
(***************************************************************************)
EXTENDS Integers, Sequences, FiniteSets, TLC

VARIABLES
    locations,            \* store: rows of table locations, in insertion order
    store0,               \* history: the rows of locations when the behaviour started
    connections,          \* store: rows of table connections, in insertion order
    stats,                \* BaseIngestor.stats of the ingestor in use
    calls,                \* history: the resolver calls made so far, with their results
    places,               \* the gazetteer JSON file: the sequence of place records
    limit,                \* the --limit argument (None or an integer)
    pc,                   \* PleiadesIngestor.ingest: position of the run
    i,                    \* index of the next place (node pass) or edge (edge pass)
    run,                  \* number of the gazetteer run in progress (1 = first)
    location_id_cache,    \* PleiadesIngestor.location_id_cache
    pending_connections,  \* PleiadesIngestor.pending_connections
    edge_counts,          \* _process_connections: success, skipped_missing, skipped_error
    reports,              \* history: the report each finished run returned
    log,                  \* history: outcome of each place the node pass processed
    spc,                  \* PleiadesConnectionIngestor.run: position
    location_cache,       \* PleiadesConnectionIngestor.location_cache
    all_connections,      \* process_connections: the collected (and truncated) edges
    si,                   \* process_connections: index of the next edge
    sstats,               \* PleiadesConnectionIngestor.stats
    slog,                 \* history: the bucket each edge of the script's pass ended in
    actors,               \* store: rows of table actors, in insertion order
    sources,              \* store: rows of table sources, in insertion order
    factoids,             \* store: rows of table factoids, in insertion order
    placements,           \* store: rows of table factoid_placements, in insertion order
    default_frame_id,     \* BaseIngestor.default_frame_id, read by connect
    tasks,                \* concurrent callers of a create operation: each one's position
    overlap,              \* history: a call began while another one was in progress
    pool,                 \* BaseIngestor.pool: "none" (None), "open" or "closed"
    runner,               \* an adapter's ingest(): its position, input and limit
    factoid_sources,      \* store: rows of table factoid_sources, in insertion order
    scan,                 \* build_location_cache: position of the paged scan
    dates,                \* a date on its way through the encoders and the display decoder
    applied,              \* the mapper or loader called last: its name, argument and result
    cli                   \* scripts/ingest.py: the command, the adapters to run, the log, the exit status

storeVars   == <<locations, store0, connections>>
adapterVars == <<places, limit, pc, i, run, location_id_cache, pending_connections,
                 edge_counts, reports, log>>
scriptVars  == <<spc, location_cache, all_connections, si, sstats, slog>>
vars == <<locations, store0, connections, stats, calls, places, limit, pc, i, run,
          location_id_cache, pending_connections, edge_counts, reports, log,
          spc, location_cache, all_connections, si, sstats, slog,
          actors, sources, factoids, placements, default_frame_id, tasks, overlap,
          pool, runner, factoid_sources, scan, dates, applied, cli>>
lifeVars == <<pool, runner>>
entityVars == <<actors, sources, factoids, placements, default_frame_id, tasks, overlap,
                pool, runner, factoid_sources, scan, dates, applied, cli>>

---------------------------------------------------------------------------
(* Bounds of the model. *)

\* resolver calls in one behaviour of SpecResolver
MaxCalls == 3
\* records in the input of an adapter run; author directories for the
\* classical-texts adapter
MaxItems == 3
MaxAuthors == 2
\* resolver calls in one behaviour that mixes the create operations
MaxMixedCalls == 2
\* place records in a gazetteer file
MaxPlaces == 2
\* Locations already in the store when a gazetteer run or the script starts
MaxStored == 2
\* gazetteer runs over the same file
MaxRuns == 2
\* Locations in the store the paged scan reads
MaxScanRows == 5
\* rows of one page of the scan (1000 in the script, scaled to the stores above)
batch_size == 2
\* the years around 0 handed to the date encoders are -MaxYear..MaxYear
MaxYear == 12
\* type strings in the placeTypes list of a place
MaxTypes == 2

---------------------------------------------------------------------------
(* Strings and Python values. *)

None == <<"<None>">>
Q == "\""
PREFIX == "pleiades:"

\* Python truthiness of an optional string: None and "" are falsy.
Truthy(v) == v # None /\ v # <<>>

\* a string element of a JSON list
Str(s) == [kind |-> "str", val |-> s]
\* a structured name entry {"name": ..., "source": "Pleiades Gazetteer"}
Obj(s) == [kind |-> "obj", val |-> s]
\* None where a list is expected, and the truthiness of an optional list
NoneList == <<[kind |-> "None", val |-> <<>>]>>
TruthyList(l) == l # NoneList /\ l # <<>>

\* list[:n] for n >= 0, and list[:n] for n < 0 (drops the last -n elements)
Slice(s, n) ==
    IF n >= 0 THEN SubSeq(s, 1, IF n < Len(s) THEN n ELSE Len(s))
    ELSE SubSeq(s, 1, IF Len(s) + n > 0 THEN Len(s) + n ELSE 0)

---------------------------------------------------------------------------
(* The store's reading of a jsonb array literal.  create_location builds   *)
(* the literal with an f-string, without escaping (base.py line 121); the  *)
(* store parses it as JSON.                                                *)

jsonb_array_literal(external_id) == <<"[", Q>> \o external_id \o <<Q, "]">>

\* A JSON array of strings, read token by token.  mode: what is expected next.
RECURSIVE ParseJsonb(_, _, _, _, _)
ParseJsonb(lit, k, mode, cur, acc) ==
    IF k > Len(lit) THEN [ok |-> (mode = "end"), elems |-> acc]
    ELSE LET c == lit[k] IN
      CASE mode = "start" ->
             IF c = "[" THEN ParseJsonb(lit, k + 1, "first", <<>>, acc)
             ELSE [ok |-> FALSE, elems |-> {}]
        [] mode = "first" ->
             IF c = "]" THEN ParseJsonb(lit, k + 1, "end", <<>>, acc)
             ELSE IF c = Q THEN ParseJsonb(lit, k + 1, "string", <<>>, acc)
             ELSE [ok |-> FALSE, elems |-> {}]
        [] mode = "element" ->
             IF c = Q THEN ParseJsonb(lit, k + 1, "string", <<>>, acc)
             ELSE [ok |-> FALSE, elems |-> {}]
        [] mode = "string" ->
             IF c = Q THEN ParseJsonb(lit, k + 1, "after", <<>>, acc \cup {cur})
             ELSE ParseJsonb(lit, k + 1, "string", Append(cur, c), acc)
        [] mode = "after" ->
             IF c = "," THEN ParseJsonb(lit, k + 1, "element", <<>>, acc)
             ELSE IF c = "]" THEN ParseJsonb(lit, k + 1, "end", <<>>, acc)
             ELSE [ok |-> FALSE, elems |-> {}]
        [] OTHER -> [ok |-> FALSE, elems |-> {}]

jsonb(lit) == ParseJsonb(lit, 1, "start", <<>>, {})

\* name_historical @> $1::jsonb : every string of the array is an element of the row's list
Contains(name_historical, elems) ==
    \A e \in elems : \E k \in 1..Len(name_historical) : name_historical[k] = Str(e)

---------------------------------------------------------------------------
(* BaseIngestor: the run statistics and create_location.                   *)

InitStats ==
    [sources_created |-> 0, sources_skipped |-> 0, factoids_created |-> 0,
     factoids_skipped |-> 0, placements_created |-> 0, locations_created |-> 0,
     locations_skipped |-> 0, actors_created |-> 0, actors_skipped |-> 0,
     connections_created |-> 0, errors |-> 0]

Bump(st, counter) == [st EXCEPT ![counter] = @ + 1]

\* the pool test placed after the validation: a call that the validation skips
\* returns before the test
Connected_late(p, fatal, outcomes) ==
    IF p # "none" THEN outcomes
    ELSE IF \E o \in outcomes : o.kind = "skipped"
    THEN {o \in outcomes : o.kind = "skipped"}
    ELSE {fatal}

\* "if not self.pool: raise RuntimeError(...)" opens every resolver operation:
\* without a pool the call ends there, else it goes on to its outcomes
Connected(p, fatal, outcomes) == IF p = "none" THEN {fatal} ELSE outcomes

\* rows of locations whose historical names contain the literal's strings
ExistingLocations(locs, external_id) ==
    {k \in 1..Len(locs) :
        Contains(locs[k].name_historical, jsonb(jsonb_array_literal(external_id)).elems)}

\* hist_names = name_historical or []; the external id is appended when absent
HistNames(name_historical, external_id) ==
    LET given == IF TruthyList(name_historical) THEN name_historical ELSE <<>>
    IN IF Truthy(external_id) /\ ~(\E k \in 1..Len(given) : given[k] = Str(external_id))
       THEN Append(given, Str(external_id))
       ELSE given

InsertLocation(locs, b) ==
    Append(locs, [id |-> Len(locs) + 1,
                  name_modern |-> b.name_modern,
                  name_historical |-> HistNames(b.name_historical, b.external_id),
                  location_type |-> b.location_type])

\* the resolver that lets a nameless bundle through when it carries an identifier
create_location_unnamed(locs, b) ==
    IF ~Truthy(b.name_modern) /\ ~TruthyList(b.name_historical) /\ ~Truthy(b.external_id)
    THEN {[kind |-> "skipped", ret |-> 0, locations |-> locs]}
    ELSE IF Truthy(b.external_id) /\ ~jsonb(jsonb_array_literal(b.external_id)).ok
    THEN {[kind |-> "raised", ret |-> 0, locations |-> locs]}
    ELSE IF Truthy(b.external_id) /\ ExistingLocations(locs, b.external_id) # {}
    THEN {[kind |-> "existing", ret |-> locs[k].id, locations |-> locs] :
             k \in ExistingLocations(locs, b.external_id)}
    ELSE {[kind |-> "created", ret |-> Len(locs) + 1, locations |-> InsertLocation(locs, b)]}

\* The outcomes of one create_location call on store rows locs: what it returns
\* (0 is Python's None), whether it raised, the rows afterwards.  The SELECT has
\* LIMIT 1 and no ORDER BY: any matching row may be the one returned.
create_location_outcomes(locs, b) ==
    IF ~Truthy(b.name_modern) /\ ~TruthyList(b.name_historical)
    THEN {[kind |-> "skipped", ret |-> 0, locations |-> locs]}
    ELSE IF Truthy(b.external_id) /\ ~jsonb(jsonb_array_literal(b.external_id)).ok
    THEN {[kind |-> "raised", ret |-> 0, locations |-> locs]}
    ELSE IF Truthy(b.external_id) /\ ExistingLocations(locs, b.external_id) # {}
    THEN {[kind |-> "existing", ret |-> locs[k].id, locations |-> locs] :
             k \in ExistingLocations(locs, b.external_id)}
    ELSE {[kind |-> "created", ret |-> Len(locs) + 1, locations |-> InsertLocation(locs, b)]}

\* the counter create_location moves for each outcome
StatsAfter(st, kind) ==
    CASE kind = "created"  -> Bump(st, "locations_created")
      [] kind = "existing" -> Bump(st, "locations_skipped")
      [] kind = "skipped"  -> Bump(st, "locations_skipped")
      [] OTHER             -> st

---------------------------------------------------------------------------
(* Taxonomy mappers and URL handling of the gazetteer adapter.             *)

NoneTok == "<None>"

\* str.lower() on the labels of the model (every other token is lower case already)
Lower(t) ==
    CASE t = "Less-Certain" -> "less-certain"
      [] t = "Certain"      -> "certain"
      [] t = "Near"         -> "near"
      [] t = "Settlement"   -> "settlement"
      [] t = "Bay"          -> "bay"
      [] t = "Findspot"     -> "findspot"
      [] OTHER              -> t

Digits == {"0", "1", "2", "3", "4", "5", "6", "7", "8", "9"}

Url(id) == <<"https://", "pleiades.stoa.org", "/places/">> \o id

\* "pleiades.stoa.org/places/" in url
HasPlacesPath(url) ==
    \E k \in 1..(Len(url) - 1) : url[k] = "pleiades.stoa.org" /\ url[k + 1] = "/places/"

\* url.split("/places/")[-1]
AfterLastPlaces(url) ==
    LET ks == {k \in 1..Len(url) : url[k] = "/places/"}
        last == CHOOSE k \in ks : \A j \in ks : j <= k
    IN SubSeq(url, last + 1, Len(url))

\* s.split("/")[0]
BeforeFirstSlash(s) ==
    LET ks == {k \in 1..Len(s) : s[k] = "/"}
    IN IF ks = {} THEN s
       ELSE SubSeq(s, 1, (CHOOSE k \in ks : \A j \in ks : k <= j) - 1)

\* str.isdigit()
IsDigit(s) == s # <<>> /\ \A k \in 1..Len(s) : s[k] \in Digits

_extract_pleiades_id(url) ==
    IF ~Truthy(url) THEN None
    ELSE IF HasPlacesPath(url) THEN BeforeFirstSlash(AfterLastPlaces(url))
    ELSE IF IsDigit(url) THEN url
    ELSE None

spatial_types ==
    {"at", "on", "near", "in", "bounds", "abuts", "crosses", "intersects",
     "part_of_physical", "part_of_regional", "part_of_admin", "part_of_analytical",
     "north_of", "south_of", "east_of", "west_of",
     "northeast_of", "northwest_of", "southeast_of", "southwest_of",
     "in_territory_of", "port_of"}
temporal_types == {"succeeds", "founded", "relocated_to", "phase"}
route_types == {"route_next", "communicates", "flows_into", "flows_through"}
identity_types == {"same_as", "member", "sympoliteia", "isopoliteia", "dependent", "ally"}
administrative_types == {"capital", "material_source"}

\* A place type and a keyword are strings, written as the sequence of their
\* pieces: "necropolis" is <<"necro", "polis">>, so that "polis" occurs in it.
lower(str) == [k \in DOMAIN str |-> Lower(str[k])]

\* x in s, for strings
Occurs(x, s) == \E k \in 1..(Len(s) - Len(x) + 1) : SubSeq(s, k, k + Len(x) - 1) = x

\* " ".join(types)
RECURSIVE join(_)
join(types) ==
    IF types = <<>> THEN <<>>
    ELSE IF Len(types) = 1 THEN types[1]
    ELSE types[1] \o <<" ">> \o join(Tail(types))

Rule(keys, kind, subtype) == [keys |-> keys, kind |-> kind, subtype |-> subtype]
\* the subtype of the rule is place_types[0]
FirstType == <<"place_types[0]">>

\* the if statements of _map_place_types, in the order of the code
place_type_rules ==
    << Rule({<<"region">>, <<"province">>, <<"territory">>, <<"country">>, <<"diocese">>},
            "area", <<"region">>),
       Rule({<<"island">>, <<"peninsula">>}, "area", <<"landform">>),
       Rule({<<"bay">>, <<"gulf">>, <<"strait">>, <<"sea">>, <<"ocean">>},
            "area", <<"water">>),
       Rule({<<"road">>, <<"via">>, <<"wall">>, <<"aqueduct">>, <<"canal">>},
            "linear", FirstType),
       Rule({<<"river">>}, "linear", <<"river">>),
       Rule({<<"settlement">>, <<"urban">>, <<"city">>, <<"town">>, <<"village">>,
             <<"polis">>}, "point", <<"settlement">>),
       Rule({<<"temple">>, <<"sanctuary">>, <<"shrine">>, <<"church">>},
            "point", <<"religious">>),
       Rule({<<"fort">>, <<"fort", "ress">>, <<"military">>, <<"camp">>, <<"castrum">>},
            "point", <<"military">>),
       Rule({<<"port">>, <<"harbor">>, <<"harbour">>}, "point", <<"port">>),
       Rule({<<"mine">>, <<"quarry">>}, "point", <<"resource">>),
       Rule({<<"bath">>, <<"theater">>, <<"theatre">>, <<"stadium">>, <<"arena">>,
             <<"amphi", "theater">>}, "point", <<"civic">>),
       Rule({<<"cemetery">>, <<"tomb">>, <<"necro", "polis">>, <<"tumulus">>},
            "point", <<"funerary">>),
       Rule({<<"mountain">>, <<"peak">>, <<"hill">>, <<"volcano">>, <<"mons">>},
            "point", <<"mountain">>),
       Rule({<<"lake">>, <<"spring">>, <<"well">>, <<"fountain">>}, "point", <<"water">>),
       Rule({<<"cape">>, <<"promontory">>}, "point", <<"landform">>) >>

\* any(x in types_str for x in keys)
Matches(rule, types_str) == \E x \in rule.keys : Occurs(x, types_str)

\* the first rule of the table that matches decides; without one, the default
Cascade(table, place_types) ==
    IF place_types = <<>> THEN <<"point", None>>
    ELSE LET types_str == join([k \in DOMAIN place_types |-> lower(place_types[k])])
             hits == {k \in 1..Len(table) : Matches(table[k], types_str)}
         IN IF hits = {} THEN <<"point", place_types[1]>>
            ELSE LET r == table[CHOOSE k \in hits : \A j \in hits : k <= j]
                 IN <<r.kind, IF r.subtype = FirstType THEN place_types[1] ELSE r.subtype>>

_map_place_types(place_types) == Cascade(place_type_rules, place_types)

\* a connection-type mapper that keeps only the namespace of an unknown type
_map_connection_type_dropping(pleiades_type) ==
    LET pt == Lower(pleiades_type)
    IN CASE pt \in spatial_types        -> <<"spatial:", pt>>
         [] pt \in temporal_types       -> <<"temporal:", pt>>
         [] pt \in route_types          -> <<"route:", pt>>
         [] pt \in identity_types       -> <<"identity:", pt>>
         [] pt \in administrative_types -> <<"admin:", pt>>
         [] OTHER                       -> <<PREFIX>>

_map_connection_type(pleiades_type) ==
    LET pt == Lower(pleiades_type)
    IN CASE pt \in spatial_types        -> <<"spatial:", pt>>
         [] pt \in temporal_types       -> <<"temporal:", pt>>
         [] pt \in route_types          -> <<"route:", pt>>
         [] pt \in identity_types       -> <<"identity:", pt>>
         [] pt \in administrative_types -> <<"admin:", pt>>
         [] OTHER                       -> <<PREFIX, pt>>

\* mapping.get(certainty.lower(), 0.75), in hundredths
_map_certainty_to_confidence(certainty) ==
    LET c == Lower(certainty)
    IN CASE c = "certain"      -> 95
         [] c = "confident"    -> 85
         [] c = "less-certain" -> 65
         [] c = "uncertain"    -> 45
         [] OTHER              -> 75

---------------------------------------------------------------------------
(* PleiadesIngestor.                                                       *)

EmptyCache == [k \in {} |-> 0]
\* dict.get(key): 0 is None
Get(cache, key) == IF key \in DOMAIN cache THEN cache[key] ELSE 0
\* cache[key] = value
Put(cache, key, value) ==
    [k \in DOMAIN cache \cup {key} |-> IF k = key THEN value ELSE cache[k]]

\* the keyword arguments _process_place passes to create_location
process_place_kwargs ==
    {"name_modern", "name_historical", "location_type", "location_subtype",
     "longitude", "latitude", "uncertainty_radius_km", "uncertainty_notes",
     "boundary_geojson", "location_changes", "terrain_notes", "description",
     "external_id"}

\* the parameters create_location declares (it takes no **kwargs)
create_location_params ==
    {"name_modern", "name_historical", "location_type", "location_subtype",
     "longitude", "latitude", "uncertainty_radius_km", "description", "external_id"}

\* Python binds a call's keywords to the parameters; an unknown keyword is a TypeError
CallBinds(kwargs, params) == kwargs \subseteq params

\* names: the place's own names (the model's places carry no "names" array, so
\* the title stands in), then the marker when the place has an id
_build_historical_names(place, pleiades_id) ==
    LET names == IF Truthy(place.title) THEN <<Obj(place.title)>> ELSE <<>>
    IN IF Truthy(pleiades_id) THEN Append(names, Str(<<PREFIX>> \o pleiades_id))
       ELSE names

\* the field bundle _process_place hands to create_location
PlaceBundle(place) ==
    [name_modern     |-> place.title,
     name_historical |-> _build_historical_names(place, place.id),
     location_type   |-> "point",
     external_id     |-> <<PREFIX>> \o place.id]

\* for conn in connections: self.pending_connections.append((pleiades_id, conn))
RECURSIVE Collect(_, _, _)
Collect(queue, pleiades_id, conns) ==
    IF conns = <<>> THEN queue
    ELSE Collect(Append(queue, <<pleiades_id, Head(conns)>>), pleiades_id, Tail(conns))

\* A faulty variant of _process_place: a place whose processing raises is counted
\* as skipped as well as under errors.
_process_place_twice(place, locs, st, cache, queue) ==
    IF ~Truthy(place.title)
    THEN {[how |-> "skipped", locations |-> locs,
           stats |-> Bump(st, "locations_skipped"), cache |-> cache, queue |-> queue]}
    ELSE {[how |-> "failed", locations |-> locs,
           stats |-> Bump(Bump(st, "locations_skipped"), "errors"),
           cache |-> cache, queue |-> queue]}

\* A faulty variant of _process_place: a place without a title is counted as
\* created instead of skipped.
_process_place_miscount(place, locs, st, cache, queue) ==
    IF ~Truthy(place.title)
    THEN {[how |-> "skipped", locations |-> locs,
           stats |-> Bump(st, "locations_created"), cache |-> cache, queue |-> queue]}
    ELSE {[how |-> "failed", locations |-> locs,
           stats |-> Bump(st, "errors"), cache |-> cache, queue |-> queue]}

\* What processing one place does, as the set of possible results: the log entry
\* (how the place ended), and the store, statistics, cache and queue afterwards.
\* An exception leaves _process_place at the point it is raised and is caught by
\* ingest, which calls log_error.
_process_place(place, locs, st, cache, queue) ==
    IF ~Truthy(place.title)
    THEN {[how |-> "skipped", locations |-> locs,
           stats |-> Bump(st, "locations_skipped"), cache |-> cache, queue |-> queue]}
    ELSE IF ~CallBinds(process_place_kwargs, create_location_params)
    THEN {[how |-> "failed", locations |-> locs,
           stats |-> Bump(st, "errors"), cache |-> cache, queue |-> queue]}
    ELSE {IF o.kind = "raised"
          THEN [how |-> "failed", locations |-> locs,
                stats |-> Bump(st, "errors"), cache |-> cache, queue |-> queue]
          ELSE [how |-> o.kind, locations |-> o.locations,
                stats |-> StatsAfter(st, o.kind),
                cache |-> IF o.ret # 0 /\ Truthy(place.id)
                          THEN Put(cache, place.id, o.ret) ELSE cache,
                queue |-> Collect(queue, place.id, place.connections)]
          : o \in create_location_outcomes(locs, PlaceBundle(place))}

\* One edge of the in-adapter edge pass, as the set of possible results: the
\* bucket the edge ends in and the Connection row inserted (<<>> when none).
\* The store's insert may fail; every exception of the loop body is caught.
ConnectionRow(from_uuid, to_uuid, connection_type, confidence) ==
    [from_entity_type |-> "location", from_entity_id |-> from_uuid,
     to_entity_type |-> "location", to_entity_id |-> to_uuid,
     connection_type |-> connection_type, confidence |-> confidence]

_process_connections(cache, from_pleiades_id, conn) ==
    LET from_uuid == Get(cache, from_pleiades_id)
        to_pleiades_id == _extract_pleiades_id(conn.connectsTo)
        to_uuid == Get(cache, to_pleiades_id)
    IN IF from_uuid = 0 THEN {[bucket |-> "missing", rows |-> <<>>]}
       ELSE IF ~Truthy(to_pleiades_id) THEN {[bucket |-> "missing", rows |-> <<>>]}
       ELSE IF to_uuid = 0 THEN {[bucket |-> "missing", rows |-> <<>>]}
       ELSE IF conn.connectionType = NoneTok \/ conn.associationCertainty = NoneTok
       THEN {[bucket |-> "error", rows |-> <<>>]}
       ELSE {[bucket |-> "error", rows |-> <<>>],
             [bucket |-> "created",
              rows |-> <<ConnectionRow(from_uuid, to_uuid,
                            _map_connection_type(conn.connectionType),
                            _map_certainty_to_confidence(conn.associationCertainty))>>]}

\* ingest(limit, skip_connections): the CLI passes only limit
skip_connections == FALSE

\* if limit: places = places[:limit]
Truncate(seq, lim) == IF lim # <<>> /\ lim[1] # 0 THEN Slice(seq, lim[1]) ELSE seq

\* ingest: a new PleiadesIngestor connects, loads the file and truncates it
ingest_start ==
    /\ pc \in {"idle", "done"}
    /\ spc = "idle"
    /\ run < MaxRuns
    /\ run' = run + 1
    /\ pc' = "locations"
    /\ i' = 1
    /\ stats' = InitStats
    /\ location_id_cache' = EmptyCache
    /\ pending_connections' = <<>>
    /\ edge_counts' = [success |-> 0, skipped_missing |-> 0, skipped_error |-> 0]
    /\ log' = <<>>
    /\ UNCHANGED <<storeVars, calls, places, limit, reports, scriptVars>>
    /\ UNCHANGED entityVars

\* ingest, first pass: one place of the truncated input per step
ingest_first_pass ==
    /\ pc = "locations"
    /\ LET input == Truncate(places, limit)
       IN IF i <= Len(input)
          THEN \E r \in _process_place(input[i], locations, stats,
                                       location_id_cache, pending_connections) :
                 /\ locations' = r.locations
                 /\ stats' = r.stats
                 /\ location_id_cache' = r.cache
                 /\ pending_connections' = r.queue
                 /\ log' = Append(log, r.how)
                 /\ i' = i + 1
                 /\ pc' = pc
          ELSE /\ pc' = "connections"
               /\ i' = 1
               /\ UNCHANGED <<locations, stats, location_id_cache,
                              pending_connections, log>>
    /\ UNCHANGED <<store0, connections, calls, places, limit, run, edge_counts,
                   reports, scriptVars>>
    /\ UNCHANGED entityVars

\* ingest, second pass and return: one pending edge per step while there is one
\* (and skip_connections is off), then the report is returned
ingest_second_pass ==
    /\ pc = "connections"
    /\ IF ~skip_connections /\ i <= Len(pending_connections)
       THEN \E r \in _process_connections(location_id_cache,
                                          pending_connections[i][1],
                                          pending_connections[i][2]) :
              /\ connections' = connections \o r.rows
              /\ stats' = CASE r.bucket = "created" -> Bump(stats, "connections_created")
                            [] r.bucket = "error"   -> Bump(stats, "errors")
                            [] OTHER                -> stats
              /\ edge_counts' =
                   CASE r.bucket = "created" -> [edge_counts EXCEPT !.success = @ + 1]
                     [] r.bucket = "error"   -> [edge_counts EXCEPT !.skipped_error = @ + 1]
                     [] OTHER -> [edge_counts EXCEPT !.skipped_missing = @ + 1]
              /\ i' = i + 1
              /\ pc' = pc
              /\ reports' = reports
       ELSE /\ pc' = "done"
            /\ reports' = Append(reports, stats)
            /\ UNCHANGED <<connections, stats, edge_counts, i>>
    /\ UNCHANGED <<locations, store0, calls, places, limit, run, location_id_cache,
                   pending_connections, log, scriptVars>>
    /\ UNCHANGED entityVars

---------------------------------------------------------------------------
(* PleiadesConnectionIngestor (scripts/ingest_pleiades_connections.py).    *)

InitScriptStats ==
    [connections_created |-> 0, connections_skipped_missing |-> 0,
     connections_skipped_error |-> 0]

\* name.startswith("pleiades:") for a string element of the list
IsMarker(name) == name.kind = "str" /\ name.val # <<>> /\ Head(name.val) = PREFIX

\* name.replace("pleiades:", ""): every occurrence is removed
StripPrefix(val) == SelectSeq(val, LAMBDA t : t # PREFIX)

\* One row of the scan: the first marker among the historical names gives the key.
CacheRow(cache, loc) ==
    LET ks == {k \in 1..Len(loc.name_historical) : IsMarker(loc.name_historical[k])}
    IN IF ks = {} THEN cache
       ELSE LET first == CHOOSE k \in ks : \A j \in ks : k <= j
            IN Put(cache, StripPrefix(loc.name_historical[first].val), loc.id)

\* build_location_cache: the rows of locations, page after page, in store order
RECURSIVE ScanRows(_, _)
ScanRows(cache, locs) ==
    IF locs = <<>> THEN cache ELSE ScanRows(CacheRow(cache, Head(locs)), Tail(locs))

build_location_cache(locs) == ScanRows(EmptyCache, locs)

\* .range(first, last) on a select without an order clause: the rows at positions
\* first..last (counted from 0) of an ordering the store chooses for the request
range(locs, first, last) ==
    LET n == Len(locs)
        len == (IF last + 1 < n THEN last + 1 ELSE n) - (IF first < n THEN first ELSE n)
    IN {[k \in 1..len |-> locs[s[k]]] :
          s \in {t \in [1..len -> 1..n] : \A a, b \in 1..len : t[a] = t[b] => a = b}}

\* One turn of the while loop of build_location_cache: one page is requested, an
\* empty page ends the scan, the rows of the page fill the cache, a page shorter
\* than batch_size ends the scan, otherwise the offset moves on by batch_size.
fetch_page ==
    /\ scan.pc = "fetch"
    /\ \E data \in range(locations, scan.offset, scan.offset + batch_size - 1) :
         IF data = <<>>
         THEN /\ scan' = [scan EXCEPT !.pc = "done", !.requests = @ + 1]
              /\ location_cache' = location_cache
         ELSE /\ location_cache' = ScanRows(location_cache, data)
              /\ scan' = [scan EXCEPT
                    !.pc = IF Len(data) < batch_size THEN "done" ELSE "fetch",
                    !.offset = IF Len(data) < batch_size THEN @ ELSE @ + batch_size,
                    !.requests = @ + 1,
                    !.visited = @ \o [k \in 1..Len(data) |-> data[k].id]]
    /\ UNCHANGED <<locations, store0, connections, stats, calls, places, limit, pc, i,
                   run, location_id_cache, pending_connections, edge_counts, reports,
                   log, spc, all_connections, si, sstats, slog>>
    /\ UNCHANGED <<actors, sources, factoids, placements, default_frame_id, tasks,
                   overlap, pool, runner, factoid_sources, dates, applied, cli>>

extract_pleiades_id(url) ==
    IF ~Truthy(url) THEN None
    ELSE IF HasPlacesPath(url) THEN BeforeFirstSlash(AfterLastPlaces(url))
    ELSE IF IsDigit(url) THEN url
    ELSE None

map_connection_type(pleiades_type) ==
    LET pt == Lower(pleiades_type)
    IN CASE pt \in spatial_types        -> <<"spatial:", pt>>
         [] pt \in temporal_types       -> <<"temporal:", pt>>
         [] pt \in route_types          -> <<"route:", pt>>
         [] pt \in identity_types       -> <<"identity:", pt>>
         [] pt \in administrative_types -> <<"admin:", pt>>
         [] OTHER                       -> <<PREFIX, pt>>

map_certainty_to_confidence(certainty) ==
    LET c == Lower(certainty)
    IN CASE c = "certain"      -> 95
         [] c = "confident"    -> 85
         [] c = "less-certain" -> 65
         [] c = "uncertain"    -> 45
         [] OTHER              -> 75

\* all_connections: (place id, conn) for every connection of every place, in order
RECURSIVE CollectAll(_)
CollectAll(ps) ==
    IF ps = <<>> THEN <<>>
    ELSE Collect(<<>>, Head(ps).id, Head(ps).connections) \o CollectAll(Tail(ps))

\* A faulty variant of process_connections: the "to" lookup is not checked, so an
\* edge to a place the cache does not hold is inserted with a null endpoint.
process_connections_partial(cache, from_pleiades_id, conn) ==
    LET from_uuid == Get(cache, from_pleiades_id)
        to_pleiades_id == extract_pleiades_id(conn.connectsTo)
        to_uuid == Get(cache, to_pleiades_id)
    IN IF from_uuid = 0 THEN {[bucket |-> "missing", rows |-> <<>>]}
       ELSE IF ~Truthy(to_pleiades_id) THEN {[bucket |-> "missing", rows |-> <<>>]}
       ELSE IF conn.connectionType = NoneTok \/ conn.associationCertainty = NoneTok
       THEN {[bucket |-> "error", rows |-> <<>>]}
       ELSE {[bucket |-> "error", rows |-> <<>>],
             [bucket |-> "created",
              rows |-> <<ConnectionRow(from_uuid, to_uuid,
                            map_connection_type(conn.connectionType),
                            map_certainty_to_confidence(conn.associationCertainty))>>]}

\* One edge of the script's loop: the bucket it ends in and the row inserted.
process_connections(cache, from_pleiades_id, conn) ==
    LET from_uuid == Get(cache, from_pleiades_id)
        to_pleiades_id == extract_pleiades_id(conn.connectsTo)
        to_uuid == Get(cache, to_pleiades_id)
    IN IF from_uuid = 0 THEN {[bucket |-> "missing", rows |-> <<>>]}
       ELSE IF ~Truthy(to_pleiades_id) THEN {[bucket |-> "missing", rows |-> <<>>]}
       ELSE IF to_uuid = 0 THEN {[bucket |-> "missing", rows |-> <<>>]}
       ELSE IF conn.connectionType = NoneTok \/ conn.associationCertainty = NoneTok
       THEN {[bucket |-> "error", rows |-> <<>>]}
       ELSE {[bucket |-> "error", rows |-> <<>>],
             [bucket |-> "created",
              rows |-> <<ConnectionRow(from_uuid, to_uuid,
                            map_connection_type(conn.connectionType),
                            map_certainty_to_confidence(conn.associationCertainty))>>]}

\* run: connect, build the cache from the store, stop when it is empty, else load
\* the file and collect (and truncate) the edges
run_start ==
    /\ spc = "idle"
    /\ pc \in {"idle", "done"}
    /\ location_cache' = build_location_cache(locations)
    /\ IF DOMAIN location_cache' = {}
       THEN /\ spc' = "done"
            /\ all_connections' = <<>>
       ELSE /\ spc' = "connections"
            /\ all_connections' = Truncate(CollectAll(places), limit)
    /\ si' = 1
    /\ sstats' = InitScriptStats
    /\ slog' = <<>>
    /\ UNCHANGED <<storeVars, stats, calls, adapterVars>>
    /\ UNCHANGED entityVars

\* A faulty variant of run_process_connections: the try encloses the loop, so the
\* first exception ends the pass.
run_process_connections_abort ==
    /\ spc = "connections"
    /\ IF si <= Len(all_connections)
       THEN \E r \in process_connections(location_cache, all_connections[si][1],
                                         all_connections[si][2]) :
              /\ connections' = connections \o r.rows
              /\ sstats' =
                   CASE r.bucket = "created" -> Bump(sstats, "connections_created")
                     [] r.bucket = "error"   -> Bump(sstats, "connections_skipped_error")
                     [] OTHER -> Bump(sstats, "connections_skipped_missing")
              /\ slog' = Append(slog, r.bucket)
              /\ si' = si + 1
              /\ spc' = IF r.bucket = "error" THEN "done" ELSE spc
       ELSE /\ spc' = "done"
            /\ UNCHANGED <<connections, sstats, slog, si>>
    /\ UNCHANGED <<locations, store0, stats, calls, adapterVars, location_cache,
                   all_connections>>
    /\ UNCHANGED entityVars

\* run, process_connections: one edge per step, then return
run_process_connections ==
    /\ spc = "connections"
    /\ IF si <= Len(all_connections)
       THEN \E r \in process_connections(location_cache, all_connections[si][1],
                                         all_connections[si][2]) :
              /\ connections' = connections \o r.rows
              /\ sstats' =
                   CASE r.bucket = "created" -> Bump(sstats, "connections_created")
                     [] r.bucket = "error"   -> Bump(sstats, "connections_skipped_error")
                     [] OTHER -> Bump(sstats, "connections_skipped_missing")
              /\ slog' = Append(slog, r.bucket)
              /\ si' = si + 1
              /\ spc' = spc
       ELSE /\ spc' = "done"
            /\ UNCHANGED <<connections, sstats, slog, si>>
    /\ UNCHANGED <<locations, store0, stats, calls, adapterVars, location_cache,
                   all_connections>>
    /\ UNCHANGED entityVars

---------------------------------------------------------------------------
(* Inputs.                                                                 *)

\* external identifiers handed to create_location: two gazetteer identifiers, one
\* holding the characters "," and one holding a single "
ExternalIds ==
    {<<PREFIX, "1">>, <<PREFIX, "2">>, <<PREFIX, "1", Q, ",", Q, "2">>, <<PREFIX, "1", Q>>}

\* field bundles of a create_location call: with or without a modern name, without
\* historical names, with a name entry, with a name entry and the call's own marker
LocationBundles ==
    {[name_modern |-> nm, name_historical |-> nh, location_type |-> "point",
      external_id |-> e] :
        nm \in {None, <<"Roma">>},
        nh \in {NoneList, <<Obj(<<"Roma">>)>>},
        e  \in ExternalIds \cup {None}}
    \cup
    {[name_modern |-> nm, name_historical |-> <<Obj(<<"Roma">>), Str(e)>>,
      location_type |-> "point", external_id |-> e] :
        nm \in {None, <<"Roma">>}, e \in ExternalIds}

\* place records of a gazetteer file: with and without a title, with and without
\* an id, with no connection or one
Place(id, title, cs) == [id |-> id, title |-> title, connections |-> cs]

PlaceRecords ==
    LET toTwo   == [connectsTo |-> Url(<<"2">>), connectionType |-> "near",
                    associationCertainty |-> "certain"]
        toOne   == [connectsTo |-> Url(<<"1">>), connectionType |-> "succeeds",
                    associationCertainty |-> "Less-Certain"]
        toThree == [connectsTo |-> Url(<<"3">>), connectionType |-> "near",
                    associationCertainty |-> "probable"]
        bare    == [connectsTo |-> <<"2">>, connectionType |-> "near",
                    associationCertainty |-> NoneTok]
    IN {Place(<<"1">>, <<"Roma">>, <<toTwo>>),
        Place(<<"2">>, <<"Roma">>, <<>>),
        Place(<<"2">>, <<"Roma">>, <<toOne>>),
        Place(<<"1">>, <<>>, <<toTwo>>),
        Place(<<"2">>, <<>>, <<>>),
        Place(<<"1">>, <<"Roma">>, <<toThree>>),
        Place(<<"1">>, <<"Roma">>, <<bare>>),
        Place(<<>>, <<"Roma">>, <<toTwo>>)}

GazetteerFiles == UNION {[1..n -> PlaceRecords] : n \in 0..MaxPlaces}

Limits == {<<>>, <<0>>, <<1>>}

\* Locations a store can hold before a run: what create_location calls leave
SeedBundles ==
    {[name_modern |-> <<"Roma">>, name_historical |-> <<Obj(<<"Roma">>), Str(e)>>,
      location_type |-> "point", external_id |-> e] :
        e \in {<<PREFIX, "1">>, <<PREFIX, "2">>}}
    \cup
    {[name_modern |-> <<"Eclipse">>, name_historical |-> NoneList,
      location_type |-> "area", external_id |-> None]}

RECURSIVE StoresAfter(_)
StoresAfter(n) ==
    IF n = 0 THEN {<<>>}
    ELSE LET prev == StoresAfter(n - 1)
         IN prev \cup {o.locations : o \in UNION {create_location_outcomes(locs, b) :
                                                     locs \in prev, b \in SeedBundles}}

ReachableStores == StoresAfter(MaxStored)

---------------------------------------------------------------------------
(* A client of the resolver calling create_location, one call after the    *)
(* other (the single sequential writer).                                   *)

Lists(locs, e) ==
    {k \in 1..Len(locs) :
        \E j \in 1..Len(locs[k].name_historical) : locs[k].name_historical[j] = Str(e)}

create_location ==
    /\ Len(calls) < MaxCalls
    /\ \E b \in LocationBundles : \E o \in Connected(pool, [kind |-> "fatal", ret |-> 0, locations |-> locations],
                                              create_location_outcomes(locations, b)) :
         /\ locations' = o.locations
         /\ stats' = StatsAfter(stats, o.kind)
         /\ calls' = Append(calls,
               [external_id |-> b.external_id,
                named   |-> Truthy(b.name_modern) \/ TruthyList(b.name_historical),
                held    |-> Lists(locations, b.external_id) # {},
                kind    |-> o.kind,
                ret     |-> o.ret,
                created |-> StatsAfter(stats, o.kind).locations_created
                              - stats.locations_created,
                skipped |-> StatsAfter(stats, o.kind).locations_skipped
                              - stats.locations_skipped])
    /\ UNCHANGED <<store0, connections, adapterVars, scriptVars>>
    /\ UNCHANGED entityVars

---------------------------------------------------------------------------
(* BaseIngestor.create_actor.                                              *)

\* rows of actors whose aliases contain the strings of the literal
ExistingActors(acts, external_id) ==
    {k \in 1..Len(acts) :
        Contains(acts[k].name_aliases, jsonb(jsonb_array_literal(external_id)).elems)}

\* rows of actors with exactly this primary name
ActorsNamed(acts, name_primary) ==
    {k \in 1..Len(acts) : acts[k].name_primary = name_primary}

\* aliases = name_aliases or []; the external id is appended when absent
Aliases(name_aliases, external_id) ==
    LET given == IF TruthyList(name_aliases) THEN name_aliases ELSE <<>>
    IN IF Truthy(external_id) /\ ~(\E k \in 1..Len(given) : given[k] = Str(external_id))
       THEN Append(given, Str(external_id))
       ELSE given

InsertActor(acts, b) ==
    Append(acts, [id |-> Len(acts) + 1,
                  name_primary |-> b.name_primary,
                  name_aliases |-> Aliases(b.name_aliases, b.external_id),
                  actor_type |-> b.actor_type])

\* A faulty variant of create_actor_outcomes: a row matched by name takes the
\* actor type of the call (update on conflict).
create_actor_upsert(acts, b) ==
    IF ~Truthy(b.name_primary) \/ Len(b.name_primary) < 2
    THEN {[kind |-> "skipped", ret |-> 0, actors |-> acts]}
    ELSE IF Truthy(b.external_id) /\ ~jsonb(jsonb_array_literal(b.external_id)).ok
    THEN {[kind |-> "raised", ret |-> 0, actors |-> acts]}
    ELSE IF Truthy(b.external_id) /\ ExistingActors(acts, b.external_id) # {}
    THEN {[kind |-> "existing", ret |-> acts[k].id, actors |-> acts] :
             k \in ExistingActors(acts, b.external_id)}
    ELSE IF ActorsNamed(acts, b.name_primary) # {}
    THEN {[kind |-> "existing", ret |-> acts[k].id,
           actors |-> [acts EXCEPT ![k].actor_type = b.actor_type]] :
             k \in ActorsNamed(acts, b.name_primary)}
    ELSE {[kind |-> "created", ret |-> Len(acts) + 1, actors |-> InsertActor(acts, b)]}

\* The outcomes of one create_actor call: validation, the lookup by external id
\* (the literal is built as in create_location), the lookup by name, the insert.
create_actor_outcomes(acts, b) ==
    IF ~Truthy(b.name_primary) \/ Len(b.name_primary) < 2
    THEN {[kind |-> "skipped", ret |-> 0, actors |-> acts]}
    ELSE IF Truthy(b.external_id) /\ ~jsonb(jsonb_array_literal(b.external_id)).ok
    THEN {[kind |-> "raised", ret |-> 0, actors |-> acts]}
    ELSE IF Truthy(b.external_id) /\ ExistingActors(acts, b.external_id) # {}
    THEN {[kind |-> "existing", ret |-> acts[k].id, actors |-> acts] :
             k \in ExistingActors(acts, b.external_id)}
    ELSE IF ActorsNamed(acts, b.name_primary) # {}
    THEN {[kind |-> "existing", ret |-> acts[k].id, actors |-> acts] :
             k \in ActorsNamed(acts, b.name_primary)}
    ELSE {[kind |-> "created", ret |-> Len(acts) + 1, actors |-> InsertActor(acts, b)]}

\* the counter create_actor moves for each outcome
ActorStatsAfter(st, kind) ==
    CASE kind = "created"  -> Bump(st, "actors_created")
      [] kind = "existing" -> Bump(st, "actors_skipped")
      [] kind = "skipped"  -> Bump(st, "actors_skipped")
      [] OTHER             -> st

\* field bundles of a create_actor call: primary names of 0, 1 and 2 characters
\* (and None), with and without an external identifier, of two actor types
ActorNames == {None, <<>>, <<"A">>, <<"A", "b">>, <<"C", "d">>}

ActorBundles ==
    {[name_primary |-> n, name_aliases |-> NoneList, actor_type |-> "person",
      external_id |-> e] :
        n \in ActorNames, e \in (ExternalIds \ {<<PREFIX, "2">>}) \cup {None}}
    \cup
    {[name_primary |-> <<"A", "b">>, name_aliases |-> NoneList, actor_type |-> "group",
      external_id |-> e] : e \in {None, <<PREFIX, "1">>}}

\* the record of one resolver call in the history: what was asked, what the store
\* held, how the call ended and what it moved
Call(op, b, held, kind, ret, created, skipped) ==
    [op |-> op, bundle |-> b, held |-> held, kind |-> kind, ret |-> ret,
     created |-> created, skipped |-> skipped]

create_actor ==
    /\ Len(calls) < MaxCalls
    /\ \E b \in ActorBundles : \E o \in Connected(pool, [kind |-> "fatal", ret |-> 0, actors |-> actors],
                                           create_actor_outcomes(actors, b)) :
         /\ actors' = o.actors
         /\ stats' = ActorStatsAfter(stats, o.kind)
         /\ calls' = Append(calls,
               Call("create_actor", b, actors, o.kind, o.ret,
                    ActorStatsAfter(stats, o.kind).actors_created - stats.actors_created,
                    ActorStatsAfter(stats, o.kind).actors_skipped - stats.actors_skipped))
    /\ UNCHANGED <<storeVars, adapterVars, scriptVars, sources, factoids, placements,
                   default_frame_id, tasks, overlap, lifeVars, factoid_sources, scan, dates, applied, cli>>

---------------------------------------------------------------------------
(* BaseIngestor.create_source.                                             *)

\* rows of sources with this digital URL
SourcesAt(srcs, digital_url) ==
    {k \in 1..Len(srcs) : srcs[k].digital_url = digital_url}

\* rows of sources with this title and this author; without an author the query
\* is "author_id IS NULL"
SourcesTitled(srcs, title, author_id) ==
    {k \in 1..Len(srcs) :
        /\ srcs[k].title = title
        /\ IF Truthy(author_id) THEN srcs[k].author_id = author_id
           ELSE srcs[k].author_id = None}

InsertSource(srcs, b) ==
    Append(srcs, [id |-> Len(srcs) + 1,
                  title |-> b.title,
                  source_type |-> b.source_type,
                  author_id |-> b.author_id,
                  digital_url |-> b.digital_url,
                  extraction_status |-> "pending"])

\* A faulty variant of create_source_outcomes: the title lookup ignores the author.
create_source_anyauthor(srcs, b) ==
    LET byTitle == {k \in 1..Len(srcs) : srcs[k].title = b.title}
    IN IF ~Truthy(b.title)
       THEN {[kind |-> "skipped", ret |-> 0, sources |-> srcs]}
       ELSE IF Truthy(b.digital_url) /\ SourcesAt(srcs, b.digital_url) # {}
       THEN {[kind |-> "existing", ret |-> srcs[k].id, sources |-> srcs] :
                k \in SourcesAt(srcs, b.digital_url)}
       ELSE IF byTitle # {}
       THEN {[kind |-> "existing", ret |-> srcs[k].id, sources |-> srcs] : k \in byTitle}
       ELSE {[kind |-> "created", ret |-> Len(srcs) + 1, sources |-> InsertSource(srcs, b)]}

\* The outcomes of one create_source call: validation, the lookup by URL, the
\* lookup by title and author, the insert.  The external_id argument is not read.
create_source_outcomes(srcs, b) ==
    IF ~Truthy(b.title)
    THEN {[kind |-> "skipped", ret |-> 0, sources |-> srcs]}
    ELSE IF Truthy(b.digital_url) /\ SourcesAt(srcs, b.digital_url) # {}
    THEN {[kind |-> "existing", ret |-> srcs[k].id, sources |-> srcs] :
             k \in SourcesAt(srcs, b.digital_url)}
    ELSE IF SourcesTitled(srcs, b.title, b.author_id) # {}
    THEN {[kind |-> "existing", ret |-> srcs[k].id, sources |-> srcs] :
             k \in SourcesTitled(srcs, b.title, b.author_id)}
    ELSE {[kind |-> "created", ret |-> Len(srcs) + 1, sources |-> InsertSource(srcs, b)]}

\* the counter create_source moves for each outcome
SourceStatsAfter(st, kind) ==
    CASE kind = "created"  -> Bump(st, "sources_created")
      [] kind = "existing" -> Bump(st, "sources_skipped")
      [] kind = "skipped"  -> Bump(st, "sources_skipped")
      [] OTHER             -> st

\* field bundles of a create_source call: without title and with one of two
\* titles, with and without author, URL and external identifier, of two types
SourceBundles ==
    {[title |-> t, source_type |-> "primary", author_id |-> a, digital_url |-> u,
      external_id |-> e] :
        t \in {<<>>, <<"T">>, <<"U">>}, a \in {None, <<"author-1">>},
        u \in {None, <<"url-1">>}, e \in {None, <<"ia:", "1">>}}
    \cup
    {[title |-> <<"T">>, source_type |-> "tertiary", author_id |-> None,
      digital_url |-> <<"url-1">>, external_id |-> None]}

create_source ==
    /\ Len(calls) < MaxCalls
    /\ \E b \in SourceBundles : \E o \in Connected(pool, [kind |-> "fatal", ret |-> 0, sources |-> sources],
                                            create_source_outcomes(sources, b)) :
         /\ sources' = o.sources
         /\ stats' = SourceStatsAfter(stats, o.kind)
         /\ calls' = Append(calls,
               Call("create_source", b, sources, o.kind, o.ret,
                    SourceStatsAfter(stats, o.kind).sources_created - stats.sources_created,
                    SourceStatsAfter(stats, o.kind).sources_skipped - stats.sources_skipped))
    /\ UNCHANGED <<storeVars, adapterVars, scriptVars, actors, factoids, placements,
                   default_frame_id, tasks, overlap, lifeVars, factoid_sources, scan, dates, applied, cli>>

---------------------------------------------------------------------------
(* BaseIngestor.create_factoid.                                            *)

\* a text of n characters ch
Text(n, ch) == [k \in 1..n |-> ch]

\* the INSERT ... RETURNING id: the new row takes the next id
InsertFactoid(rows, b) ==
    Append(rows, [id |-> Len(rows) + 1, description |-> b.description,
                  summary |-> b.summary, factoid_type |-> b.factoid_type,
                  layer |-> b.layer, raw_observation |-> b.raw_observation,
                  raw_observation_type |-> b.raw_observation_type,
                  status |-> b.status])

\* the validation with the boundary one character too low
create_factoid_short(rows, b) ==
    IF ~Truthy(b.description) \/ Len(b.description) < 9
    THEN {[kind |-> "skipped", ret |-> 0, factoids |-> rows]}
    ELSE {[kind |-> "created", ret |-> Len(rows) + 1, factoids |-> InsertFactoid(rows, b)]}

\* the insert that first looks for a Factoid with the same fields
create_factoid_dedup(rows, b) ==
    IF ~Truthy(b.description) \/ Len(b.description) < 10
    THEN {[kind |-> "skipped", ret |-> 0, factoids |-> rows]}
    ELSE IF \E k \in 1..Len(rows) : [rows[k] EXCEPT !.id = 0] =
                                      [InsertFactoid(<<>>, b)[1] EXCEPT !.id = 0]
    THEN {[kind |-> "existing", ret |-> 1, factoids |-> rows]}
    ELSE {[kind |-> "created", ret |-> Len(rows) + 1, factoids |-> InsertFactoid(rows, b)]}

\* how a call ends: "if not description or len(description) < 10" skips, every
\* other call inserts
create_factoid_outcomes(rows, b) ==
    IF ~Truthy(b.description) \/ Len(b.description) < 10
    THEN {[kind |-> "skipped", ret |-> 0, factoids |-> rows]}
    ELSE {[kind |-> "created", ret |-> Len(rows) + 1, factoids |-> InsertFactoid(rows, b)]}

FactoidStatsAfter(st, kind) ==
    CASE kind = "created" -> Bump(st, "factoids_created")
      [] kind = "skipped" -> Bump(st, "factoids_skipped")
      [] OTHER            -> st

\* descriptions of 0, 1, 9, 10 and 11 characters (and None), blank ones included
Descriptions ==
    {None} \cup {Text(n, "x") : n \in {0, 1, 9, 10, 11}}
           \cup {Text(n, " ") : n \in {9, 10}}

\* field bundles of a create_factoid call, the defaults of the signature for the rest
FactoidBundles ==
    {[description |-> d, factoid_type |-> t, layer |-> "attested",
      raw_observation |-> None, raw_observation_type |-> None, summary |-> None,
      status |-> "sourced"] : d \in Descriptions, t \in {"event", "observation"}}

create_factoid ==
    /\ Len(calls) < MaxCalls
    /\ \E b \in FactoidBundles : \E o \in Connected(pool, [kind |-> "fatal", ret |-> 0, factoids |-> factoids],
                                             create_factoid_outcomes(factoids, b)) :
         /\ factoids' = o.factoids
         /\ stats' = FactoidStatsAfter(stats, o.kind)
         /\ calls' = Append(calls,
               Call("create_factoid", b, factoids, o.kind, o.ret,
                    FactoidStatsAfter(stats, o.kind).factoids_created - stats.factoids_created,
                    FactoidStatsAfter(stats, o.kind).factoids_skipped - stats.factoids_skipped))
    /\ UNCHANGED <<storeVars, adapterVars, scriptVars, actors, sources, placements,
                   default_frame_id, tasks, overlap, lifeVars, factoid_sources, scan, dates, applied, cli>>

---------------------------------------------------------------------------
(* BaseIngestor.connect and BaseIngestor.create_placement.                 *)

\* the id of the store's default reference frame, and of another frame
DefaultFrame == <<"frame-default">>
OtherFrame == <<"frame-other">>

\* connect: default_frame_id is the id of the row flagged as default, and stays
\* None when the store has no such row
connect == {None, DefaultFrame}

\* Python's str(): the text of a UUID, and "None" for None
str(v) == IF v = None THEN <<"None">> ELSE v

\* frame_id = frame_id or str(self.default_frame_id)
PlacementFrame(frame_id, default) == IF Truthy(frame_id) THEN frame_id ELSE str(default)

\* the row the INSERT stores
InsertPlacement(rows, b, frame) ==
    Append(rows, [id |-> Len(rows) + 1, factoid_id |-> b.factoid_id, frame_id |-> frame,
                  date_precision |-> b.date_precision,
                  placement_confidence |-> b.placement_confidence,
                  placement_type |-> b.placement_type])

\* How a call ends.  "if not frame_id" skips.  Otherwise the INSERT is sent: with
\* a frame that is no frame of the store the statement fails or stores the text as
\* it is (the table's definition is not part of the source); ON CONFLICT DO NOTHING
\* returns no row when the store holds a conflicting placement, and then nothing
\* is counted.
create_placement_outcomes(rows, b, default) ==
    LET frame == PlacementFrame(b.frame_id, default)
        made  == [kind |-> "created", ret |-> Len(rows) + 1,
                  placements |-> InsertPlacement(rows, b, frame)]
    IN IF ~Truthy(frame)
       THEN {[kind |-> "skipped", ret |-> 0, placements |-> rows]}
       ELSE IF frame \notin {DefaultFrame, OtherFrame}
       THEN {[kind |-> "raised", ret |-> 0, placements |-> rows], made}
       ELSE IF \E r \in 1..Len(rows) :
                 rows[r].factoid_id = b.factoid_id /\ rows[r].frame_id = frame
       THEN {[kind |-> "conflict", ret |-> 0, placements |-> rows], made}
       ELSE {made}

PlacementStatsAfter(st, kind) ==
    IF kind = "created" THEN Bump(st, "placements_created") ELSE st

\* field bundles of a create_placement call on stored factoids: without a frame,
\* with the empty text, with a frame of the store; the signature's defaults for
\* the rest (the confidence in hundredths)
PlacementBundles(facts) ==
    {[factoid_id |-> facts[k].id, frame_id |-> f, date_precision |-> "year",
      placement_confidence |-> 80, placement_type |-> "system"] :
        k \in 1..Len(facts), f \in {None, <<>>, DefaultFrame, OtherFrame}}

create_placement ==
    /\ Len(calls) < MaxCalls
    /\ \E b \in PlacementBundles(factoids) :
       \E o \in Connected(pool, [kind |-> "fatal", ret |-> 0, placements |-> placements],
                          create_placement_outcomes(placements, b, default_frame_id)) :
         /\ placements' = o.placements
         /\ stats' = PlacementStatsAfter(stats, o.kind)
         /\ calls' = Append(calls,
               Call("create_placement", b, placements, o.kind, o.ret,
                    PlacementStatsAfter(stats, o.kind).placements_created
                      - stats.placements_created, 0))
    /\ UNCHANGED <<storeVars, adapterVars, scriptVars, actors, sources, factoids,
                   default_frame_id, tasks, overlap, lifeVars, factoid_sources, scan, dates, applied, cli>>

---------------------------------------------------------------------------
(* BaseIngestor.link_factoid_source and BaseIngestor.create_connection.    *)

\* INSERT ... ON CONFLICT DO NOTHING: a link of the same factoid and source is
\* stored once
InsertLink(rows, b) ==
    IF \E r \in 1..Len(rows) :
         rows[r].factoid_id = b.factoid_id /\ rows[r].source_id = b.source_id
    THEN rows
    ELSE Append(rows, [factoid_id |-> b.factoid_id, source_id |-> b.source_id,
                       relationship |-> b.relationship])

\* links between the factoids and sources the store can hold
LinkBundles ==
    {[factoid_id |-> f, source_id |-> src, relationship |-> "primary_source"] :
        f \in 1..2, src \in 1..2}

\* the operation returns nothing and moves no counter
link_factoid_source ==
    /\ Len(calls) < MaxCalls
    /\ \E b \in LinkBundles :
       \E o \in Connected(pool, [kind |-> "fatal", ret |-> 0, links |-> factoid_sources],
                          {[kind |-> "returned", ret |-> 0,
                            links |-> InsertLink(factoid_sources, b)]}) :
         /\ factoid_sources' = o.links
         /\ calls' = Append(calls,
               Call("link_factoid_source", b, factoid_sources, o.kind, o.ret, 0, 0))
    /\ UNCHANGED <<storeVars, stats, adapterVars, scriptVars, actors, sources, factoids,
                   placements, default_frame_id, tasks, overlap, lifeVars, scan, dates, applied, cli>>

\* the INSERT ... RETURNING id of create_connection: no lookup, no conflict clause
InsertConnection(rows, b) ==
    Append(rows, [from_entity_type |-> b.from_entity_type,
                  from_entity_id |-> b.from_entity_id,
                  to_entity_type |-> b.to_entity_type, to_entity_id |-> b.to_entity_id,
                  connection_type |-> b.connection_type, confidence |-> b.confidence])

\* the operation with a lookup of the same endpoints and type before the insert
create_connection_dedup(rows, b) ==
    IF \E r \in 1..Len(rows) : rows[r] = InsertConnection(<<>>, b)[1]
    THEN {[kind |-> "existing", ret |-> 1, connections |-> rows]}
    ELSE {[kind |-> "created", ret |-> Len(rows) + 1,
           connections |-> InsertConnection(rows, b)]}

create_connection_outcomes(rows, b) ==
    {[kind |-> "created", ret |-> Len(rows) + 1, connections |-> InsertConnection(rows, b)]}

ConnectionStatsAfter(st, kind) ==
    IF kind = "created" THEN Bump(st, "connections_created") ELSE st

\* the two shapes the adapters pass: a factoid located at a location, and a
\* location near another one (the confidence in hundredths)
ConnectionBundles ==
    {[from_entity_type |-> "factoid", from_entity_id |-> f, to_entity_type |-> "location",
      to_entity_id |-> l, connection_type |-> "located_at", confidence |-> 80] :
        f \in 1..2, l \in 1..2}
    \cup
    {[from_entity_type |-> "location", from_entity_id |-> f, to_entity_type |-> "location",
      to_entity_id |-> l, connection_type |-> "spatial:near", confidence |-> 95] :
        f \in 1..2, l \in 1..2}

create_connection ==
    /\ Len(calls) < MaxCalls
    /\ \E b \in ConnectionBundles :
       \E o \in Connected(pool, [kind |-> "fatal", ret |-> 0, connections |-> connections],
                          create_connection_outcomes(connections, b)) :
         /\ connections' = o.connections
         /\ stats' = ConnectionStatsAfter(stats, o.kind)
         /\ calls' = Append(calls,
               Call("create_connection", b, connections, o.kind, o.ret,
                    ConnectionStatsAfter(stats, o.kind).connections_created
                      - stats.connections_created, 0))
    /\ UNCHANGED <<locations, store0, adapterVars, scriptVars, actors, sources, factoids,
                   placements, default_frame_id, tasks, overlap, lifeVars, factoid_sources,
                   scan, dates, applied, cli>>

---------------------------------------------------------------------------
(* ingest() of the four adapters: the connection to the store, the input,  *)
(* the item loop with its limit and its per-item handler, the report.      *)
(* What processing one record does to the store is in the operations       *)
(* above; here a record is how its processing ends: "ok", "skipped" (the   *)
(* adapter or the resolver passes it over) or "raises".  The edge pass of  *)
(* the gazetteer adapter is ingest_second_pass.                            *)

Adapters == {"pleiades", "nasa_eclipse", "perseus", "internet_archive"}
ItemKinds == {"ok", "skipped", "raises"}

\* "if limit": None and 0 are falsy
LimitSet(lim) == lim # <<>> /\ lim[1] # 0

\* the input of a run: records for the gazetteer, eclipse and archive adapters,
\* author directories with their work directories for the classical texts
FlatInputs == UNION {[1..n -> ItemKinds] : n \in 0..MaxItems}
AuthorDirs ==
    {[actor |-> "ok", works |-> <<>>],
     [actor |-> "raises", works |-> <<"ok">>],
     [actor |-> "ok", works |-> <<"ok", "ok">>],
     [actor |-> "ok", works |-> <<"raises", "ok">>],
     [actor |-> "ok", works |-> <<"skipped", "ok">>]}
AuthorInputs == UNION {[1..n -> AuthorDirs] : n \in 0..MaxAuthors}
RunLimits == {<<>>, <<0>>, <<1>>, <<2>>}

\* a new ingestor about to run ingest(limit): input is "present" or "missing"
\* (the file or directory the adapter looks for), client whether the optional
\* client library can be imported
StartRunner(adapter, input, client, items, lim) ==
    [pc |-> "start", adapter |-> adapter, input |-> input, client |-> client,
     items |-> items, lim |-> lim, k |-> 1, w |-> 1, count |-> 0, inner |-> 0,
     remaining |-> <<>>, visited |-> <<>>, handled |-> <<>>, closes |-> 0,
     result |-> "none"]

Runners ==
    {StartRunner(a, inp, "installed", items, lim) :
        a \in {"pleiades", "nasa_eclipse"}, inp \in {"present", "missing"},
        items \in FlatInputs, lim \in RunLimits}
    \cup {StartRunner("internet_archive", "present", c, items, <<>>) :
            c \in {"installed", "absent"}, items \in FlatInputs}
    \cup {StartRunner("perseus", inp, "installed", items, lim) :
            inp \in {"present", "missing"}, items \in AuthorInputs, lim \in RunLimits}

\* an ingest without its finally: the pool is left as it is
close_missing(r, p) == [runner |-> r, pool |-> p]

\* close(): "if self.pool: await self.pool.close()"
close(r, p) ==
    [runner |-> IF p = "none" THEN r ELSE [r EXCEPT !.closes = @ + 1],
     pool   |-> IF p = "none" THEN p ELSE "closed"]

\* "await self.connect()", the first statement of every ingest, before its try:
\* the pool cannot be created, or it is created and the read of the default
\* frame fails, or both succeed
run_connect ==
    /\ runner.pc = "start"
    /\ \/ /\ runner' = [runner EXCEPT !.pc = "raised", !.result = "connect failed"]
          /\ UNCHANGED <<pool, default_frame_id>>
       \/ /\ pool' = "open"
          /\ runner' = [runner EXCEPT !.pc = "raised", !.result = "frame read failed"]
          /\ UNCHANGED default_frame_id
       \/ /\ pool' = "open"
          /\ default_frame_id' \in connect
          /\ runner' = [runner EXCEPT !.pc = "connected"]
    /\ UNCHANGED <<storeVars, stats, calls, adapterVars, scriptVars, actors, sources,
                   factoids, placements, tasks, overlap, factoid_sources, scan, dates, applied, cli>>

\* "ia = self._get_ia()", between connect and the try of the archive adapter
run_get_ia ==
    /\ runner.pc = "connected" /\ runner.adapter = "internet_archive"
    /\ runner' = IF runner.client = "absent"
                 THEN [runner EXCEPT !.pc = "raised", !.result = "ImportError"]
                 ELSE [runner EXCEPT !.pc = "items"]
    /\ UNCHANGED <<storeVars, stats, calls, adapterVars, scriptVars, actors, sources,
                   factoids, placements, default_frame_id, tasks, overlap, pool,
                   factoid_sources, scan, dates, applied, cli>>

\* inside the try, before the loop.  Gazetteer: _find_json_file raises
\* FileNotFoundError or the places are loaded and truncated.  Classical texts:
\* FileNotFoundError without the directory.  Eclipses: the source record is
\* created (the call may fail), then the file's rows or, without a file, the
\* built-in sample are the input.  An exception leaves through the finally.
run_open_input ==
    /\ runner.pc = "connected" /\ runner.adapter # "internet_archive"
    /\ \E failed \in IF runner.adapter = "nasa_eclipse" THEN BOOLEAN
                     ELSE {runner.input = "missing"} :
         IF failed
         THEN LET c == close([runner EXCEPT !.pc = "raised",
                                !.result = IF runner.adapter = "nasa_eclipse"
                                           THEN "create_source failed"
                                           ELSE "FileNotFoundError"], pool)
              IN runner' = c.runner /\ pool' = c.pool /\ stats' = stats
         ELSE /\ runner' = [runner EXCEPT !.pc = "items",
                               !.items = IF runner.adapter = "pleiades"
                                         THEN Truncate(runner.items, runner.lim)
                                         ELSE runner.items]
              /\ pool' = pool
              /\ stats' = IF runner.adapter = "nasa_eclipse"
                          THEN Bump(stats, "sources_created") ELSE stats
    /\ UNCHANGED <<storeVars, calls, adapterVars, scriptVars, actors, sources,
                   factoids, placements, default_frame_id, tasks, overlap,
                   factoid_sources, scan, dates, applied, cli>>

\* except Exception as e: self.log_error(...)
log_error(st) == Bump(st, "errors")

\* the counters the create calls of an adapter move for one record that is new
\* to the store: create_location for a place; create_source for a catalogue
\* entry; create_factoid, create_placement, create_location and
\* create_connection for an eclipse; create_actor and create_source for the
\* classical texts
created_by(adapter) ==
    CASE adapter = "pleiades"         -> <<"locations_created">>
      [] adapter = "internet_archive" -> <<"sources_created">>
      [] adapter = "nasa_eclipse"     -> <<"factoids_created", "placements_created",
                                          "locations_created", "connections_created">>
      [] adapter = "perseus"          -> <<"actors_created", "sources_created">>

RECURSIVE BumpAll(_, _)
BumpAll(st, names) ==
    IF names = <<>> THEN st ELSE BumpAll(Bump(st, Head(names)), Tail(names))

\* one turn of the loop of the gazetteer adapter (over the truncated places; a
\* place without title counts as skipped) and of the archive adapter (which
\* counts a record without identifier as skipped)
FlatStep(r, st) ==
    IF r.k > Len(r.items)
    THEN [runner |-> [r EXCEPT !.pc = "finishing"], stats |-> st]
    ELSE LET it == r.items[r.k] IN
         [runner |-> [r EXCEPT !.k = @ + 1, !.visited = Append(@, r.k),
                         !.handled = IF it = "skipped" THEN @ ELSE Append(@, r.k)],
          stats  |-> IF it = "raises" THEN log_error(st)
                     ELSE IF it = "skipped"
                     THEN Bump(st, IF r.adapter = "internet_archive"
                                   THEN "sources_skipped" ELSE "locations_skipped")
                     ELSE BumpAll(st, created_by(r.adapter))]

\* the loop of the eclipse adapter without its per-item handler: the exception
\* of a record ends the loop
NasaStep_unhandled(r, st) ==
    IF r.k > Len(r.items) \/ (LimitSet(r.lim) /\ r.count >= r.lim[1])
    THEN [runner |-> [r EXCEPT !.pc = "finishing"], stats |-> st]
    ELSE LET it == r.items[r.k] IN
         IF it = "raises"
         THEN [runner |-> [r EXCEPT !.pc = "raised", !.visited = Append(@, r.k)],
               stats |-> st]
         ELSE [runner |-> [r EXCEPT !.k = @ + 1, !.visited = Append(@, r.k),
                              !.handled = Append(@, r.k), !.count = @ + 1],
               stats  |-> IF it = "skipped" THEN Bump(st, "factoids_skipped")
                          ELSE BumpAll(st, created_by(r.adapter))]

\* one turn of the loop of the eclipse adapter: "if limit and count >= limit:
\* break", and count += 1 after the record was processed without exception.  A
\* row of a file that does not parse is passed over; a sample record whose
\* factoid the resolver skips still counts.
NasaStep(r, st) ==
    IF r.k > Len(r.items) \/ (LimitSet(r.lim) /\ r.count >= r.lim[1])
    THEN [runner |-> [r EXCEPT !.pc = "finishing"], stats |-> st]
    ELSE LET it == r.items[r.k] IN
         IF r.input = "present" /\ it = "skipped"
         THEN [runner |-> [r EXCEPT !.k = @ + 1, !.visited = Append(@, r.k)],
               stats |-> st]
         ELSE [runner |-> [r EXCEPT !.k = @ + 1, !.visited = Append(@, r.k),
                              !.handled = Append(@, r.k),
                              !.count = IF it = "raises" THEN @ ELSE @ + 1],
               stats  |-> IF it = "raises" THEN log_error(st)
                          ELSE IF it = "skipped" THEN Bump(st, "factoids_skipped")
                          ELSE BumpAll(st, created_by(r.adapter))]

\* one turn of the loop over the author directories: the break on the limit,
\* then _process_author up to its loop over the works (create_actor may raise,
\* which the handler of the author loop catches)
AuthorStep(r, st) ==
    IF r.k > Len(r.items) \/ (LimitSet(r.lim) /\ r.count >= r.lim[1])
    THEN [runner |-> [r EXCEPT !.pc = "finishing"], stats |-> st]
    ELSE IF r.items[r.k].actor = "raises"
    THEN [runner |-> [r EXCEPT !.k = @ + 1, !.visited = Append(@, <<r.k, 0>>)],
          stats |-> log_error(st)]
    ELSE [runner |-> [r EXCEPT !.pc = "works", !.w = 1, !.inner = 0,
                         !.visited = Append(@, <<r.k, 0>>),
                         !.remaining = IF LimitSet(r.lim)
                                       THEN <<r.lim[1] - r.count>> ELSE <<>>],
          stats |-> Bump(st, created_by(r.adapter)[1])]

\* a work loop that also records a factoid for each work
WorkStep_factoid(r, st) ==
    LET works == r.items[r.k].works IN
    IF r.w > Len(works) \/ (LimitSet(r.remaining) /\ r.inner >= r.remaining[1])
    THEN [runner |-> [r EXCEPT !.pc = "items", !.k = @ + 1, !.count = @ + r.inner],
          stats |-> st]
    ELSE LET it == works[r.w] IN
         [runner |-> [r EXCEPT !.w = @ + 1, !.visited = Append(@, <<r.k, r.w>>),
                         !.handled = IF it = "skipped" THEN @
                                     ELSE Append(@, <<r.k, r.w>>),
                         !.inner = IF it = "ok" THEN @ + 1 ELSE @],
          stats  |-> IF it = "raises" THEN log_error(st)
                     ELSE IF it = "skipped" THEN st
                     ELSE Bump(Bump(st, "sources_created"), "factoids_created")]

\* one turn of the loop over the works of an author: the break on the remaining
\* limit, a work without catalogue entry is passed over, a processed one counts;
\* after the loop the author's count is added to the run's
WorkStep(r, st) ==
    LET works == r.items[r.k].works IN
    IF r.w > Len(works) \/ (LimitSet(r.remaining) /\ r.inner >= r.remaining[1])
    THEN [runner |-> [r EXCEPT !.pc = "items", !.k = @ + 1, !.count = @ + r.inner],
          stats |-> st]
    ELSE LET it == works[r.w] IN
         [runner |-> [r EXCEPT !.w = @ + 1, !.visited = Append(@, <<r.k, r.w>>),
                         !.handled = IF it = "skipped" THEN @
                                     ELSE Append(@, <<r.k, r.w>>),
                         !.inner = IF it = "ok" THEN @ + 1 ELSE @],
          stats  |-> IF it = "raises" THEN log_error(st)
                     ELSE IF it = "skipped" THEN st
                     ELSE Bump(st, created_by(r.adapter)[2])]

run_item ==
    /\ runner.pc \in {"items", "works"}
    /\ LET n == CASE runner.pc = "works"              -> WorkStep(runner, stats)
                  [] runner.adapter = "perseus"       -> AuthorStep(runner, stats)
                  [] runner.adapter = "nasa_eclipse"  -> NasaStep(runner, stats)
                  [] OTHER                            -> FlatStep(runner, stats)
       IN runner' = n.runner /\ stats' = n.stats
    /\ UNCHANGED <<storeVars, calls, adapterVars, scriptVars, actors, sources,
                   factoids, placements, default_frame_id, tasks, overlap, pool,
                   factoid_sources, scan, dates, applied, cli>>

\* "return self.get_stats()", through "finally: await self.close()"
run_return ==
    /\ runner.pc = "finishing"
    /\ LET c == close([runner EXCEPT !.pc = "returned", !.result = "report"], pool)
       IN runner' = c.runner /\ pool' = c.pool
    /\ UNCHANGED <<storeVars, stats, calls, adapterVars, scriptVars, actors, sources,
                   factoids, placements, default_frame_id, tasks, overlap,
                   factoid_sources, scan, dates, applied, cli>>

---------------------------------------------------------------------------
(* scripts/ingest.py: main() dispatches on the command; run_pleiades,      *)
(* run_eclipses, run_perseus and run_internet_archive build an ingestor,   *)
(* await its ingest() and print the statistics; run_mvp runs three of them *)
(* in turn, each inside try/except.                                        *)

Commands == {"pleiades", "eclipses", "perseus", "internet-archive", "mvp"}

\* the adapters a command runs, in order
CommandAdapters(command) ==
    CASE command = "pleiades"         -> <<"pleiades">>
      [] command = "eclipses"         -> <<"nasa_eclipse">>
      [] command = "perseus"          -> <<"perseus">>
      [] command = "internet-archive" -> <<"internet_archive">>
      [] command = "mvp"              -> <<"pleiades", "nasa_eclipse", "perseus">>

\* main() after parse_args: the command, args.limit
StartCli(command, lim) ==
    [pc |-> "dispatch", command |-> command, lim |-> lim,
     todo |-> CommandAdapters(command), logged |-> <<>>, raised |-> {},
     status |-> "running"]

cliUnchanged ==
    UNCHANGED <<locations, store0, connections, calls, places, limit, pc, i,
                run, location_id_cache, pending_connections, edge_counts, reports,
                log, spc, location_cache, all_connections, si, sstats, slog,
                actors, sources, factoids, placements, tasks,
                overlap, factoid_sources, scan, dates, applied>>

\* run_<adapter>(args): "ingestor = <Adapter>Ingestor(data_dir=args.data_dir)" and
\* the call of ingest(limit=args.limit); the archive adapter gets no limit
cli_run ==
    /\ cli.pc = "dispatch" /\ cli.todo # <<>>
    /\ runner' \in {r \in Runners :
                      /\ r.adapter = Head(cli.todo)
                      /\ r.adapter # "internet_archive" => r.lim = cli.lim}
    /\ stats' = InitStats
    /\ pool' = "none"
    /\ default_frame_id' = None
    /\ cli' = [cli EXCEPT !.pc = "running"]
    /\ cliUnchanged

\* ingest() returned: print_stats(stats) logs the report.  A single command is
\* done, and the process ends with status 0; run_mvp keeps the report and goes on.
cli_print_stats ==
    /\ cli.pc = "running" /\ runner.pc = "returned"
    /\ cli' = [cli EXCEPT
          !.logged = Append(@, <<runner.adapter, "report">>),
          !.todo = Tail(@),
          !.pc = IF cli.command = "mvp" THEN "dispatch" ELSE "exited",
          !.status = IF cli.command = "mvp" THEN @ ELSE 0]
    /\ UNCHANGED <<stats, pool, runner, default_frame_id>>
    /\ cliUnchanged

\* ingest() raised.  In a single command nothing catches the exception: it leaves
\* run_<adapter> before print_stats and asyncio.run, and the interpreter ends the
\* process with status 1.  run_mvp catches it, logs the error, keeps
\* {"error": str(e)} as the result, and goes on.
cli_raised ==
    /\ cli.pc = "running" /\ runner.pc = "raised"
    /\ cli' = [cli EXCEPT
          !.raised = @ \cup {runner.adapter},
          !.logged = IF cli.command = "mvp"
                     THEN Append(@, <<runner.adapter, "error">>) ELSE @,
          !.todo = Tail(@),
          !.pc = IF cli.command = "mvp" THEN "dispatch" ELSE "exited",
          !.status = IF cli.command = "mvp" THEN @ ELSE 1]
    /\ UNCHANGED <<stats, pool, runner, default_frame_id>>
    /\ cliUnchanged

\* run_mvp after the three adapters: the summary is logged, the results are
\* returned, main() returns and the process ends with status 0
cli_mvp_summary ==
    /\ cli.pc = "dispatch" /\ cli.todo = <<>>
    /\ cli' = [cli EXCEPT !.logged = Append(@, <<"mvp", "summary">>),
                          !.pc = "exited", !.status = 0]
    /\ UNCHANGED <<stats, pool, runner, default_frame_id>>
    /\ cliUnchanged

---------------------------------------------------------------------------
(* Two callers of the create operations.  A call is two requests to the    *)
(* store, each behind an await: the lookups, then the INSERT; another      *)
(* caller's requests can come between them.  (The two lookups of           *)
(* create_actor and create_source are taken as one step: separating them   *)
(* adds interleavings and removes none.)                                   *)

\* no adapter run in progress
IdleRunner == [pc |-> "idle"]
\* the command-line script is not running
IdleCli == [pc |-> "idle"]
\* no mapper or loader called yet
NoCall == [fn |-> "none", arg |-> <<>>, out |-> <<>>, raised |-> FALSE]
\* no date in hand
NoDates == [pc |-> "idle"]
\* no scan in progress
IdleScan == [pc |-> "idle", offset |-> 0, requests |-> 0, visited |-> <<>>]

\* two callers, none of them in a call
Callers == {"caller-1", "caller-2"}
IdleTask == [pc |-> "idle", op |-> "none", bundle |-> <<>>, kind |-> "none", ret |-> 0]

\* bundles of the calls: named, with an external identifier
RaceBundles(op) ==
    CASE op = "create_location" ->
           {b \in LocationBundles : Truthy(b.name_modern) /\ Truthy(b.external_id)}
      [] op = "create_actor" ->
           {b \in ActorBundles : Truthy(b.name_primary) /\ Len(b.name_primary) >= 2
                                  /\ Truthy(b.external_id)}
      [] OTHER ->
           {b \in SourceBundles : Truthy(b.title) /\ Truthy(b.external_id)}

\* how the lookups of a call end on the tables as they are: "created" stands for
\* "nothing found", the call goes on to its INSERT
LookupKinds(op, b) ==
    CASE op = "create_location" ->
           {[kind |-> o.kind, ret |-> o.ret] : o \in create_location_outcomes(locations, b)}
      [] op = "create_actor" ->
           {[kind |-> o.kind, ret |-> o.ret] : o \in create_actor_outcomes(actors, b)}
      [] OTHER ->
           {[kind |-> o.kind, ret |-> o.ret] : o \in create_source_outcomes(sources, b)}

\* the counters a finished call moves
OpStatsAfter(op, st, kind) ==
    CASE op = "create_location" -> StatsAfter(st, kind)
      [] op = "create_actor"    -> ActorStatsAfter(st, kind)
      [] OTHER                  -> SourceStatsAfter(st, kind)

\* a caller enters a create operation: validation and lookups
call_lookup(c) ==
    /\ tasks[c].pc = "idle"
    /\ \E op \in {"create_location", "create_actor", "create_source"} :
       \E b \in RaceBundles(op) : \E o \in LookupKinds(op, b) :
         /\ tasks' = [tasks EXCEPT ![c] =
                        [pc |-> IF o.kind = "created" THEN "found-nothing" ELSE "done",
                         op |-> op, bundle |-> b,
                         kind |-> IF o.kind = "created" THEN "none" ELSE o.kind,
                         ret |-> IF o.kind = "created" THEN 0 ELSE o.ret]]
         /\ stats' = IF o.kind = "created" THEN stats ELSE OpStatsAfter(op, stats, o.kind)
    /\ overlap' = (overlap \/ \E d \in Callers \ {c} : tasks[d].pc = "found-nothing")
    /\ UNCHANGED <<locations, store0, connections, calls, adapterVars, scriptVars, actors,
                   sources, factoids, placements, default_frame_id, lifeVars, factoid_sources, scan, dates, applied, cli>>

\* the caller's INSERT, on the tables as they are now
call_insert(c) ==
    /\ tasks[c].pc = "found-nothing"
    /\ LET t == tasks[c] IN
       /\ locations' = IF t.op = "create_location"
                       THEN InsertLocation(locations, t.bundle) ELSE locations
       /\ actors' = IF t.op = "create_actor" THEN InsertActor(actors, t.bundle) ELSE actors
       /\ sources' = IF t.op = "create_source"
                     THEN InsertSource(sources, t.bundle) ELSE sources
       /\ tasks' = [tasks EXCEPT ![c] =
                      [t EXCEPT !.pc = "done", !.kind = "created",
                                !.ret = CASE t.op = "create_location" -> Len(locations) + 1
                                          [] t.op = "create_actor"    -> Len(actors) + 1
                                          [] OTHER                    -> Len(sources) + 1]]
       /\ stats' = OpStatsAfter(t.op, stats, "created")
    /\ UNCHANGED <<store0, connections, calls, adapterVars, scriptVars, factoids,
                   placements, default_frame_id, overlap, lifeVars, factoid_sources, scan, dates, applied, cli>>

---------------------------------------------------------------------------
(* Specifications.                                                         *)

InitObjects ==
    /\ connections = <<>>
    /\ stats = InitStats
    /\ calls = <<>>
    /\ pc = "idle"
    /\ i = 1
    /\ run = 0
    /\ location_id_cache = EmptyCache
    /\ pending_connections = <<>>
    /\ edge_counts = [success |-> 0, skipped_missing |-> 0, skipped_error |-> 0]
    /\ reports = <<>>
    /\ log = <<>>
    /\ spc = "idle"
    /\ location_cache = EmptyCache
    /\ all_connections = <<>>
    /\ si = 1
    /\ sstats = InitScriptStats
    /\ slog = <<>>

\* the other tables are empty and the store has no default reference frame
InitTables ==
    /\ actors = <<>>
    /\ sources = <<>>
    /\ factoids = <<>>
    /\ placements = <<>>
    /\ default_frame_id = None
    /\ tasks = [c \in Callers |-> IdleTask]
    /\ overlap = FALSE
    /\ pool = "open"
    /\ runner = IdleRunner
    /\ factoid_sources = <<>>
    /\ scan = IdleScan
    /\ dates = NoDates
    /\ applied = NoCall
    /\ cli = IdleCli

\* Gazetteer runs and the connection script over one file, against a store that
\* earlier create_location calls have filled.
Init ==
    /\ locations \in ReachableStores
    /\ store0 = locations
    /\ places \in GazetteerFiles
    /\ limit \in Limits
    /\ InitObjects
    /\ InitTables

Next ==
    \/ ingest_start
    \/ ingest_first_pass
    \/ ingest_second_pass
    \/ run_start
    \/ run_process_connections

Spec == Init /\ [][Next]_vars

\* Gazetteer runs and the connection script over a file whose records lack an id.
IdlessRecords ==
    {Place(<<>>, <<"Roma">>, <<[connectsTo |-> Url(<<"2">>), connectionType |-> "near",
                               associationCertainty |-> "certain"]>>),
     Place(<<>>, <<"Ostia">>, <<>>),
     Place(<<>>, <<>>, <<>>),
     Place(<<"2">>, <<"Roma">>, <<>>)}

IdlessFiles == UNION {[1..n -> IdlessRecords] : n \in 0..MaxPlaces}

InitIdless ==
    /\ locations \in ReachableStores
    /\ store0 = locations
    /\ places \in IdlessFiles
    /\ limit \in Limits
    /\ InitObjects
    /\ InitTables

SpecIdless == InitIdless /\ [][Next]_vars

---------------------------------------------------------------------------
(* Date literals: make_date_string and _format_date_display of the eclipse *)
(* adapter, _year_to_date_string of the gazetteer adapter.  A string is    *)
(* the sequence of its characters.                                         *)

DigitChars == <<"0", "1", "2", "3", "4", "5", "6", "7", "8", "9">>
BC == <<" ", "B", "C">>

abs(n) == IF n < 0 THEN -n ELSE n

\* the decimal digits of a natural number
RECURSIVE decimal(_)
decimal(n) ==
    IF n < 10 THEN <<DigitChars[n + 1]>>
    ELSE Append(decimal(n \div 10), DigitChars[(n % 10) + 1])

RECURSIVE ZeroFill(_, _)
ZeroFill(s, width) == IF Len(s) >= width THEN s ELSE ZeroFill(<<"0">> \o s, width)

\* f"{n:0<width>d}", and f"{n}" for width 0: the sign counts in the width
format_d(n, width) ==
    IF n < 0 THEN <<"-">> \o ZeroFill(decimal(-n), width - 1)
    ELSE ZeroFill(decimal(n), width)

\* int(s) for a string of decimal digits
RECURSIVE int(_)
int(s) ==
    IF s = <<>> THEN 0
    ELSE 10 * int(SubSeq(s, 1, Len(s) - 1))
         + (CHOOSE d \in 0..9 : DigitChars[d + 1] = s[Len(s)])

endswith(s, suffix) ==
    Len(s) >= Len(suffix) /\ SubSeq(s, Len(s) - Len(suffix) + 1, Len(s)) = suffix

\* s.replace(old, ""): every occurrence of old is removed, left to right
RECURSIVE remove(_, _)
remove(s, old) ==
    IF Len(s) < Len(old) THEN s
    ELSE IF SubSeq(s, 1, Len(old)) = old
    THEN remove(SubSeq(s, Len(old) + 1, Len(s)), old)
    ELSE <<Head(s)>> \o remove(Tail(s), old)

\* s.split("-")[0]: the characters before the first "-"
RECURSIVE first_part(_)
first_part(s) ==
    IF s = <<>> \/ Head(s) = "-" THEN <<>> ELSE <<Head(s)>> \o first_part(Tail(s))

\* an encoder that gives the era suffix to negative years only
make_date_string_negative(year, month, day) ==
    IF year < 0
    THEN format_d(abs(year), 4) \o <<"-">> \o format_d(month, 2) \o <<"-">>
         \o format_d(day, 2) \o BC
    ELSE format_d(year, 4) \o <<"-">> \o format_d(month, 2) \o <<"-">> \o format_d(day, 2)

make_date_string(year, month, day) ==
    IF year <= 0
    THEN format_d(abs(year), 4) \o <<"-">> \o format_d(month, 2) \o <<"-">>
         \o format_d(day, 2) \o BC
    ELSE format_d(year, 4) \o <<"-">> \o format_d(month, 2) \o <<"-">> \o format_d(day, 2)

_format_date_display(date_str) ==
    IF endswith(date_str, BC)
    THEN format_d(int(first_part(remove(date_str, BC))), 0) \o <<" ", "B", "C", "E">>
    ELSE format_d(int(first_part(date_str)), 0) \o <<" ", "C", "E">>

_year_to_date_string(year) ==
    IF year < 0
    THEN format_d(abs(year), 4) \o <<"-", "0", "1", "-", "0", "1">> \o BC
    ELSE format_d(year, 4) \o <<"-", "0", "1", "-", "0", "1">>

\* the dates handed to the encoders: the years around 0 and the first and last
\* years of the built-in eclipse list, every month, days of one and two digits
Years == (-MaxYear..MaxYear) \cup {-584, 1133}
Months == 1..12
Days == {1, 9, 10, 28, 31}

datesUnchanged ==
    UNCHANGED <<locations, store0, connections, stats, calls, places, limit, pc, i,
                run, location_id_cache, pending_connections, edge_counts, reports,
                log, spc, location_cache, all_connections, si, sstats, slog,
                actors, sources, factoids, placements, default_frame_id, tasks,
                overlap, pool, runner, factoid_sources, scan, applied, cli>>

\* the eclipse list is built: "date": make_date_string(year, month, day)
encode_date ==
    /\ dates.pc = "input"
    /\ dates' = [dates EXCEPT !.pc = "encoded",
                   !.date = make_date_string(dates.year, dates.month, dates.day)]
    /\ datesUnchanged

\* _create_eclipse_factoid: summary = f"... on {self._format_date_display(date_str)}"
display_date ==
    /\ dates.pc = "encoded"
    /\ dates' = [dates EXCEPT !.pc = "displayed",
                   !.display = _format_date_display(dates.date)]
    /\ datesUnchanged

\* _parse_names: name_entry["period_start"] = self._year_to_date_string(start_year)
encode_period ==
    /\ dates.pc = "input"
    /\ dates.period = <<>>
    /\ dates' = [dates EXCEPT !.period = _year_to_date_string(dates.year)]
    /\ datesUnchanged

---------------------------------------------------------------------------
(* The taxonomy mappers of the gazetteer adapter, called on their own.     *)

\* type strings of a placeTypes list: one for each rule, two in capitals, two
\* unknown to every rule
TypeStrings ==
    {<<"region">>, <<"island">>, <<"bay">>, <<"Bay">>, <<"road">>, <<"river">>,
     <<"settlement">>, <<"Settlement">>, <<"temple">>, <<"fort", "ress">>, <<"port">>,
     <<"mine">>, <<"amphi", "theater">>, <<"necro", "polis">>, <<"tomb">>,
     <<"mountain">>, <<"lake">>, <<"cape">>, <<"Findspot">>, <<"unknown">>}
TypeLists == UNION {[1..n -> TypeStrings] : n \in 0..MaxTypes}

\* connectionType of a connection: the known types, one in capitals, the default
\* of conn.get, an unknown one, and JSON null
ConnectionTypeArgs ==
    spatial_types \cup temporal_types \cup route_types \cup identity_types
    \cup administrative_types \cup {"Near", "connection", "unknown_kind", NoneTok}

\* associationCertainty of a connection
CertaintyArgs ==
    {"certain", "Certain", "confident", "less-certain", "Less-Certain", "uncertain",
     "probable", "", NoneTok}

\* a call that returned out, and a call that raised: out is the exception
Returned(fn, arg, out) == [fn |-> fn, arg |-> arg, out |-> out, raised |-> FALSE]
Raised(fn, arg, exc) == [fn |-> fn, arg |-> arg, out |-> exc, raised |-> TRUE]

appliedUnchanged ==
    UNCHANGED <<locations, store0, connections, stats, calls, places, limit, pc, i,
                run, location_id_cache, pending_connections, edge_counts, reports,
                log, spc, location_cache, all_connections, si, sstats, slog,
                actors, sources, factoids, placements, default_frame_id, tasks,
                overlap, pool, runner, factoid_sources, scan, dates, cli>>

\* _process_place: location_type, location_subtype = self._map_place_types(place_types)
call_map_place_types ==
    /\ applied.fn = "none"
    /\ \E place_types \in TypeLists :
         applied' = Returned("_map_place_types", place_types,
                             _map_place_types(place_types))
    /\ appliedUnchanged

\* _process_connections: self._map_connection_type(conn.get("connectionType", ...))
call_map_connection_type ==
    /\ applied.fn = "none"
    /\ \E t \in ConnectionTypeArgs :
         applied' = IF t = NoneTok
                    THEN Raised("_map_connection_type", t, "AttributeError")
                    ELSE Returned("_map_connection_type", t, _map_connection_type(t))
    /\ appliedUnchanged

\* _process_connections: self._map_certainty_to_confidence(certainty)
call_map_certainty_to_confidence ==
    /\ applied.fn = "none"
    /\ \E c \in CertaintyArgs :
         applied' = IF c = NoneTok
                    THEN Raised("_map_certainty_to_confidence", c, "AttributeError")
                    ELSE Returned("_map_certainty_to_confidence", c,
                                  _map_certainty_to_confidence(c))
    /\ appliedUnchanged

\* The paged scan of build_location_cache over a store that create_location calls
\* have filled.
ScanBundle(n) ==
    IF n = 1 THEN [name_modern |-> <<"Roma">>, name_historical |-> <<Obj(<<"Roma">>)>>,
                   location_type |-> "point", external_id |-> <<PREFIX, "1">>]
    ELSE IF n = 3 THEN [name_modern |-> <<"Roma">>, name_historical |-> <<Obj(<<"Roma">>)>>,
                        location_type |-> "point", external_id |-> <<PREFIX, "2">>]
    ELSE [name_modern |-> <<"Eclipse">>, name_historical |-> NoneList,
          location_type |-> "area", external_id |-> None]

RECURSIVE ScanStore(_)
ScanStore(n) == IF n = 0 THEN <<>> ELSE InsertLocation(ScanStore(n - 1), ScanBundle(n))

ScanStores == {ScanStore(n) : n \in 0..MaxScanRows}

InitScan ==
    /\ locations \in ScanStores
    /\ store0 = locations
    /\ places = <<>>
    /\ limit = <<>>
    /\ InitObjects
    /\ actors = <<>>
    /\ sources = <<>>
    /\ factoids = <<>>
    /\ placements = <<>>
    /\ default_frame_id = None
    /\ tasks = [c \in Callers |-> IdleTask]
    /\ overlap = FALSE
    /\ pool = "none"
    /\ runner = IdleRunner
    /\ factoid_sources = <<>>
    /\ scan = [pc |-> "fetch", offset |-> 0, requests |-> 0, visited |-> <<>>]
    /\ dates = NoDates
    /\ applied = NoCall
    /\ cli = IdleCli

NextScan == fetch_page

SpecScan == InitScan /\ [][NextScan]_vars

\* Dates through the encoders and the display decoder.
InitDates ==
    /\ locations = <<>>
    /\ store0 = <<>>
    /\ places = <<>>
    /\ limit = <<>>
    /\ InitObjects
    /\ actors = <<>>
    /\ sources = <<>>
    /\ factoids = <<>>
    /\ placements = <<>>
    /\ default_frame_id = None
    /\ tasks = [c \in Callers |-> IdleTask]
    /\ overlap = FALSE
    /\ pool = "none"
    /\ runner = IdleRunner
    /\ factoid_sources = <<>>
    /\ scan = IdleScan
    /\ dates \in {[pc |-> "input", year |-> y, month |-> m, day |-> d,
                   date |-> <<>>, display |-> <<>>, period |-> <<>>] :
                     y \in Years, m \in Months, d \in Days}
    /\ applied = NoCall
    /\ cli = IdleCli

NextDates == encode_date \/ display_date \/ encode_period

SpecDates == InitDates /\ [][NextDates]_vars

\* Sequential create_location calls against an empty store.
InitResolver ==
    /\ locations = <<>>
    /\ store0 = <<>>
    /\ places = <<>>
    /\ limit = <<>>
    /\ InitObjects
    /\ InitTables

NextResolver == create_location

SpecResolver == InitResolver /\ [][NextResolver]_vars

---------------------------------------------------------------------------
(* The text-library adapter: _process_author and _process_work.            *)

\* the author directories of the library, sorted by name, and the name that
\* _get_author_name reads for each
author_dirs == <<"tlg0003", "tlg0012">>
AuthorNames == [a \in {"tlg0003", "tlg0012"} |->
                   IF a = "tlg0003" THEN <<"T", "h">> ELSE <<"H", "o">>]

\* str(row["id"]) of an actor row, None for no actor
ActorKeys == <<"actor-1", "actor-2">>
ActorKey(ret) == IF ret = 0 THEN None ELSE <<ActorKeys[ret]>>

\* a work directory: its name, whether __cts__.xml is there and parses, and the
\* title found in it (none: the directory name stands in)
WorkNames == <<"tlg001", "tlg002">>
WorkFiles ==
    {[cts |-> c, title |-> <<>>] : c \in {"missing", "unparsable"}}
    \cup {[cts |-> "ok", title |-> t] : t \in {<<>>, <<"T">>, <<"U">>}}
WorkDirs ==
    UNION {{[k \in 1..n |-> [name |-> WorkNames[k], cts |-> f[k].cts,
                             title |-> f[k].title]] : f \in [1..n -> WorkFiles]} :
              n \in 0..Len(WorkNames)}

\* work_info.get("title", work_dir.name)
work_title(work) == IF work.title # <<>> THEN work.title ELSE <<work.name>>

\* f"https://scaife.perseus.org/reader/urn:cts:greekLit:{author_id}"
scaife_url(author_id) ==
    <<"https://scaife.perseus.org/reader/urn:cts:greekLit:", author_id>>

WorkSource(work, author_id, author_actor_id) ==
    [title |-> work_title(work), source_type |-> "primary",
     author_id |-> author_actor_id, digital_url |-> scaife_url(author_id),
     external_id |-> None]

\* _process_work: False without readable metadata, else one create_source call
\* whose returned id is not used
_process_work(work, author_id, author_actor_id, srcs, st) ==
    IF work.cts # "ok"
    THEN [processed |-> FALSE, sources |-> srcs, stats |-> st]
    ELSE LET o == CHOOSE o \in create_source_outcomes(
                      srcs, WorkSource(work, author_id, author_actor_id)) : TRUE
         IN [processed |-> TRUE, sources |-> o.sources,
             stats |-> SourceStatsAfter(st, o.kind)]

\* the loop of _process_author over the sorted work directories from the k-th on
RECURSIVE process_works(_, _, _, _, _, _)
process_works(work_dirs, k, author_id, author_actor_id, remaining_limit, acc) ==
    IF k > Len(work_dirs) THEN acc
    ELSE IF remaining_limit > 0 /\ Len(acc.processed) >= remaining_limit THEN acc
    ELSE LET r == _process_work(work_dirs[k], author_id, author_actor_id,
                                acc.sources, acc.stats)
         IN process_works(work_dirs, k + 1, author_id, author_actor_id,
                          remaining_limit,
                          [sources |-> r.sources, stats |-> r.stats,
                           processed |-> IF r.processed
                                         THEN Append(acc.processed, work_dirs[k])
                                         ELSE acc.processed])

\* the works processed by the author calls made so far
RECURSIVE works_processed(_)
works_processed(cs) ==
    IF cs = <<>> THEN 0 ELSE cs[Len(cs)].ret + works_processed(SubSeq(cs, 1, Len(cs) - 1))

\* "if limit": None and 0 set no limit
LimitOf(lim) == IF lim = <<>> THEN 0 ELSE lim[1]

\* One turn of the author loop of PerseusIngestor.ingest: the limit test, then
\* _process_author (create_actor, then every work directory); an exception of
\* _process_author is logged as an error.
process_author ==
    /\ pool = "open"
    /\ Len(calls) < Len(author_dirs)
    /\ ~(LimitOf(limit) > 0 /\ works_processed(calls) >= LimitOf(limit))
    /\ LET author_id == author_dirs[Len(calls) + 1]
           remaining == IF LimitOf(limit) > 0
                        THEN LimitOf(limit) - works_processed(calls) ELSE 0
           b == [name_primary |-> AuthorNames[author_id], name_aliases |-> NoneList,
                 actor_type |-> "person", external_id |-> <<"tlg:", author_id>>]
       IN \E work_dirs \in WorkDirs : \E a \in create_actor_outcomes(actors, b) :
            LET r == IF a.kind = "raised"
                     THEN [sources |-> sources, stats |-> Bump(stats, "errors"),
                           processed |-> <<>>]
                     ELSE process_works(work_dirs, 1, author_id, ActorKey(a.ret),
                                        remaining,
                                        [sources |-> sources,
                                         stats |-> ActorStatsAfter(stats, a.kind),
                                         processed |-> <<>>])
            IN /\ actors' = a.actors
               /\ sources' = r.sources
               /\ stats' = r.stats
               /\ calls' = Append(calls,
                     Call("_process_author",
                          [author_id |-> author_id, work_dirs |-> work_dirs,
                           processed |-> r.processed],
                          sources, a.kind, Len(r.processed),
                          r.stats.sources_created - stats.sources_created,
                          r.stats.sources_skipped - stats.sources_skipped))
    /\ UNCHANGED <<storeVars, adapterVars, scriptVars, factoids, placements,
                   default_frame_id, tasks, overlap, lifeVars, factoid_sources,
                   scan, dates, applied, cli>>


---------------------------------------------------------------------------
(* The eclipse adapter: ingest and _create_eclipse_factoid.                *)

MaxEclipses == 2

\* eclipses of the sample list (the date is a string from make_date_string) and
\* of a data file (the date is a date object), with and without coordinates
Eclipses ==
    {[name |-> n, point |-> c, date |-> d] :
        n \in {"E1", "E2"}, c \in BOOLEAN, d \in {"string", "date"}}

\* description = f"{eclipse['name']}: {eclipse['description']}"
EclipseFactoid(eclipse) ==
    [description |-> <<eclipse.name, ":", " ">> \o Text(9, "x"),
     factoid_type |-> "event", layer |-> "documented", raw_observation |-> None,
     raw_observation_type |-> <<"document_text">>, summary |-> <<eclipse.name>>,
     status |-> "verified"]

EclipsePlacement(factoid_id) ==
    [factoid_id |-> factoid_id, frame_id |-> None, date_precision |-> "exact",
     placement_confidence |-> 95, placement_type |-> "system"]

EclipseLocation(eclipse) ==
    [name_modern |-> <<"Eclipse visibility: ", eclipse.name>>,
     name_historical |-> NoneList, location_type |-> "area", external_id |-> None]

EclipseConnection(factoid_id, location_id) ==
    [from_entity_type |-> "factoid", from_entity_id |-> factoid_id,
     to_entity_type |-> "location", to_entity_id |-> location_id,
     connection_type |-> "located_at", confidence |-> 80]

\* the tables and counters one eclipse works on
EclipseStore ==
    [factoids |-> factoids, placements |-> placements, links |-> factoid_sources,
     locations |-> locations, connections |-> connections, stats |-> stats]

\* the end of _create_eclipse_factoid: the visibility Location and, when it has
\* an id, the Connection to it
eclipse_located(S, eclipse, factoid_id) ==
    IF ~eclipse.point THEN {[kind |-> "ok", store |-> S]}
    ELSE {IF l.kind = "raised" THEN [kind |-> "raised", store |-> S]
          ELSE LET T == [S EXCEPT !.locations = l.locations,
                                  !.stats = StatsAfter(S.stats, l.kind)]
               IN IF l.ret = 0 THEN [kind |-> "ok", store |-> T]
                  ELSE LET c == CHOOSE c \in create_connection_outcomes(
                                    T.connections,
                                    EclipseConnection(factoid_id, l.ret)) : TRUE
                       IN [kind |-> "ok",
                           store |-> [T EXCEPT
                              !.connections = c.connections,
                              !.stats = ConnectionStatsAfter(T.stats, c.kind)]]
          : l \in create_location_outcomes(S.locations, EclipseLocation(eclipse))}

\* the placement, then the link to the catalog Source when there is one
eclipse_placed(S, eclipse, factoid_id, default, nasa_source_id) ==
    UNION {IF p.kind = "raised" THEN {[kind |-> "raised", store |-> S]}
           ELSE LET T == [S EXCEPT !.placements = p.placements,
                                   !.stats = PlacementStatsAfter(S.stats, p.kind)]
                    U == IF nasa_source_id # 0
                         THEN [T EXCEPT !.links =
                                 InsertLink(T.links,
                                    [factoid_id |-> factoid_id,
                                     source_id |-> nasa_source_id,
                                     relationship |-> "primary_source"])]
                         ELSE T
                IN eclipse_located(U, eclipse, factoid_id)
           : p \in create_placement_outcomes(S.placements,
                                             EclipsePlacement(factoid_id), default)}

\* _create_eclipse_factoid, as the set of possible results: how the call ended and
\* the tables and counters afterwards.  The summary is formatted from the date
\* before create_factoid is called; nothing that was written is taken back when
\* a later call raises.
_create_eclipse_factoid(S, eclipse, default, nasa_source_id) ==
    IF eclipse.date # "string" THEN {[kind |-> "raised", store |-> S]}
    ELSE UNION {IF f.ret = 0
                THEN {[kind |-> "ok",
                       store |-> [S EXCEPT !.stats = FactoidStatsAfter(S.stats, f.kind)]]}
                ELSE eclipse_placed(
                         [S EXCEPT !.factoids = f.factoids,
                                   !.stats = FactoidStatsAfter(S.stats, f.kind)],
                         eclipse, f.ret, default, nasa_source_id)
                : f \in create_factoid_outcomes(S.factoids, EclipseFactoid(eclipse))}

\* the catalog Source of the run
NasaSource ==
    [title |-> <<"NASA GSFC Eclipse Website">>, source_type |-> "tertiary",
     author_id |-> None, digital_url |-> <<"https://eclipse.gsfc.nasa.gov/">>,
     external_id |-> None]

\* ingest up to the loop: connect reads the default frame, create_source stores
\* or finds the catalog Source
eclipse_ingest_start ==
    /\ pool = "none"
    /\ calls = <<>>
    /\ pool' = "open"
    /\ default_frame_id' \in connect
    /\ \E o \in create_source_outcomes(sources, NasaSource) :
         /\ sources' = o.sources
         /\ stats' = SourceStatsAfter(stats, o.kind)
         /\ calls' = Append(calls, Call("create_source", NasaSource, sources, o.kind,
                                        o.ret, 0, 0))
    /\ UNCHANGED <<storeVars, adapterVars, scriptVars, actors, factoids, placements,
                   tasks, overlap, runner, factoid_sources, scan, dates, applied, cli>>

\* eclipses that ended without an exception: the count the limit is tested on
eclipse_count(cs) == Cardinality({k \in 1..Len(cs) : cs[k].op = "_create_eclipse_factoid"
                                                      /\ cs[k].kind = "ok"})

\* one turn of the loop over the eclipses: the limit test, the eclipse, and
\* log_error when it raised
eclipse_item ==
    /\ pool = "open"
    /\ calls # <<>>
    /\ Len(calls) <= MaxEclipses
    /\ ~(LimitSet(limit) /\ eclipse_count(calls) >= limit[1])
    /\ \E eclipse \in Eclipses :
       \E r \in _create_eclipse_factoid(EclipseStore, eclipse, default_frame_id,
                                        calls[1].ret) :
         LET after == IF r.kind = "raised" THEN Bump(r.store.stats, "errors")
                      ELSE r.store.stats
         IN /\ factoids' = r.store.factoids
            /\ placements' = r.store.placements
            /\ factoid_sources' = r.store.links
            /\ locations' = r.store.locations
            /\ connections' = r.store.connections
            /\ stats' = after
            /\ calls' = Append(calls,
                  Call("_create_eclipse_factoid", eclipse, factoids, r.kind,
                       Len(r.store.factoids),
                       after.factoids_created - stats.factoids_created,
                       after.placements_created - stats.placements_created))
    /\ UNCHANGED <<store0, adapterVars, scriptVars, actors, sources, default_frame_id,
                   tasks, overlap, lifeVars, scan, dates, applied, cli>>

\* the end of ingest: the report is returned and close() releases the pool
eclipse_ingest_return ==
    /\ pool = "open"
    /\ calls # <<>>
    /\ pool' = "none"
    /\ UNCHANGED <<storeVars, stats, calls, adapterVars, scriptVars, actors, sources,
                   factoids, placements, default_frame_id, tasks, overlap, runner,
                   factoid_sources, scan, dates, applied, cli>>


---------------------------------------------------------------------------
(* The gazetteer loader: _load_places and its two code paths.              *)

\* the top-level structures a JSON file can hold: an object whose members are
\* arrays of place records, an array of place records, anything else
ShortFiles == {f \in GazetteerFiles : Len(f) <= 1}
MemberKeys == {{"@graph"}, {"places"}, {"features"}}

JsonFiles ==
    {[top |-> "object", members |-> m] :
        m \in UNION {[K -> GazetteerFiles] : K \in MemberKeys}}
    \cup
    {[top |-> "object", members |-> m] : m \in [{"@graph", "places"} -> ShortFiles]}
    \cup
    {[top |-> "array", items |-> f] : f \in GazetteerFiles}
    \cup
    {[top |-> "scalar"]}

ValueError == <<"ValueError">>

\* isinstance(data, dict) and key in data
has(data, key) == data.top = "object" /\ key \in DOMAIN data.members

\* ijson.items(f, '@graph.item'): the elements of the array under the top-level
\* key '@graph'; a document with no such path yields nothing
ijson_items(data) == IF has(data, "@graph") THEN data.members["@graph"] ELSE <<>>

_load_places_streaming(data) == [raised |-> FALSE, out |-> ijson_items(data)]

_load_places_full(data) ==
    IF has(data, "@graph") THEN [raised |-> FALSE, out |-> data.members["@graph"]]
    ELSE IF data.top = "array" THEN [raised |-> FALSE, out |-> data.items]
    ELSE IF has(data, "places") THEN [raised |-> FALSE, out |-> data.members["places"]]
    ELSE [raised |-> TRUE, out |-> ValueError]

Outcome(fn, data, r) ==
    IF r.raised THEN Raised(fn, data, r.out) ELSE Returned(fn, data, r.out)

\* _load_places with ijson importable
load_places_streaming ==
    /\ applied.fn = "none"
    /\ \E data \in JsonFiles :
         applied' = Outcome("_load_places_streaming", data,
                            _load_places_streaming(data))
    /\ appliedUnchanged

\* _load_places after ImportError
load_places_full ==
    /\ applied.fn = "none"
    /\ \E data \in JsonFiles :
         applied' = Outcome("_load_places_full", data, _load_places_full(data))
    /\ appliedUnchanged


\* One call of a mapper on place types, on a connection type or on a certainty
\* label.
NextMappers ==
    \/ call_map_place_types
    \/ call_map_connection_type
    \/ call_map_certainty_to_confidence

SpecMappers == InitResolver /\ [][NextMappers]_vars

\* One load of a gazetteer file on either code path.
NextLoader ==
    \/ load_places_streaming
    \/ load_places_full

SpecLoader == InitResolver /\ [][NextLoader]_vars

\* A text-library run against an empty store, with or without a limit.
InitWorks ==
    /\ locations = <<>>
    /\ store0 = <<>>
    /\ places = <<>>
    /\ limit \in RunLimits
    /\ InitObjects
    /\ InitTables

NextWorks == process_author

SpecWorks == InitWorks /\ [][NextWorks]_vars

\* One eclipse run against an empty store, with or without a default frame.
InitEclipses ==
    /\ locations = <<>>
    /\ store0 = <<>>
    /\ places = <<>>
    /\ limit \in RunLimits
    /\ InitObjects
    /\ actors = <<>>
    /\ sources = <<>>
    /\ factoids = <<>>
    /\ placements = <<>>
    /\ default_frame_id = None
    /\ tasks = [c \in Callers |-> IdleTask]
    /\ overlap = FALSE
    /\ pool = "none"
    /\ runner = IdleRunner
    /\ factoid_sources = <<>>
    /\ scan = IdleScan
    /\ dates = NoDates
    /\ applied = NoCall
    /\ cli = IdleCli

NextEclipses ==
    \/ eclipse_ingest_start
    \/ eclipse_item
    \/ eclipse_ingest_return

SpecEclipses == InitEclipses /\ [][NextEclipses]_vars

\* Sequential create_actor calls against an empty store.
NextActors == create_actor

SpecActors == InitResolver /\ [][NextActors]_vars

\* Sequential create_source calls against an empty store.
NextSources == create_source

SpecSources == InitResolver /\ [][NextSources]_vars

\* Sequential calls of the three deduplicating create operations, in any order.
NextEntities ==
    \/ Len(calls) < MaxMixedCalls /\ create_location
    \/ Len(calls) < MaxMixedCalls /\ create_actor
    \/ Len(calls) < MaxMixedCalls /\ create_source

SpecEntities == InitResolver /\ [][NextEntities]_vars

\* A client of create_factoid alone.
NextFactoids == create_factoid

SpecFactoids == InitResolver /\ [][NextFactoids]_vars

\* A client of the two validating operations whose boundary is a length.
NextValidation ==
    \/ Len(calls) < MaxMixedCalls /\ create_factoid
    \/ Len(calls) < MaxMixedCalls /\ create_actor

SpecValidation == InitResolver /\ [][NextValidation]_vars

\* A connected ingestor that creates factoids and places them: connect has read
\* the default frame of a store that has one, or of one that has none.
InitPlacements ==
    /\ locations = <<>>
    /\ store0 = <<>>
    /\ places = <<>>
    /\ limit = <<>>
    /\ InitObjects
    /\ actors = <<>>
    /\ sources = <<>>
    /\ factoids = <<>>
    /\ placements = <<>>
    /\ default_frame_id \in connect
    /\ tasks = [c \in Callers |-> IdleTask]
    /\ overlap = FALSE
    /\ pool = "open"
    /\ runner = IdleRunner
    /\ factoid_sources = <<>>
    /\ scan = IdleScan
    /\ dates = NoDates
    /\ applied = NoCall
    /\ cli = IdleCli

NextPlacements == create_factoid \/ create_placement

SpecPlacements == InitPlacements /\ [][NextPlacements]_vars

\* A client of every resolver operation, on an ingestor that has not connected or
\* on one that has, against a store that holds a factoid of an earlier run.
InitOps ==
    /\ locations = <<>>
    /\ store0 = <<>>
    /\ places = <<>>
    /\ limit = <<>>
    /\ InitObjects
    /\ actors = <<>>
    /\ sources = <<>>
    /\ factoids = InsertFactoid(<<>>, CHOOSE b \in FactoidBundles :
                                        b.description = Text(10, "x") /\ b.factoid_type = "event")
    /\ placements = <<>>
    /\ pool \in {"none", "open"}
    /\ default_frame_id = IF pool = "none" THEN None ELSE DefaultFrame
    /\ tasks = [c \in Callers |-> IdleTask]
    /\ overlap = FALSE
    /\ runner = IdleRunner
    /\ factoid_sources = <<>>
    /\ scan = IdleScan
    /\ dates = NoDates
    /\ applied = NoCall
    /\ cli = IdleCli

NextOps ==
    \/ Len(calls) < MaxMixedCalls /\ create_location
    \/ Len(calls) < MaxMixedCalls /\ create_actor
    \/ Len(calls) < MaxMixedCalls /\ create_source
    \/ Len(calls) < MaxMixedCalls /\ create_factoid
    \/ Len(calls) < MaxMixedCalls /\ create_placement
    \/ Len(calls) < MaxMixedCalls /\ link_factoid_source
    \/ Len(calls) < MaxMixedCalls /\ create_connection

SpecOps == InitOps /\ [][NextOps]_vars

\* One run of one adapter, from a new ingestor to the report or the exception.
InitRun ==
    /\ locations = <<>>
    /\ store0 = <<>>
    /\ places = <<>>
    /\ limit = <<>>
    /\ InitObjects
    /\ actors = <<>>
    /\ sources = <<>>
    /\ factoids = <<>>
    /\ placements = <<>>
    /\ default_frame_id = None
    /\ tasks = [c \in Callers |-> IdleTask]
    /\ overlap = FALSE
    /\ pool = "none"
    /\ runner \in Runners
    /\ factoid_sources = <<>>
    /\ scan = IdleScan
    /\ dates = NoDates
    /\ applied = NoCall
    /\ cli = IdleCli

NextRun == run_connect \/ run_get_ia \/ run_open_input \/ run_item \/ run_return

SpecRun == InitRun /\ [][NextRun]_vars

\* One run of scripts/ingest.py with a command.
InitCli ==
    /\ locations = <<>>
    /\ store0 = <<>>
    /\ places = <<>>
    /\ limit = <<>>
    /\ InitObjects
    /\ actors = <<>>
    /\ sources = <<>>
    /\ factoids = <<>>
    /\ placements = <<>>
    /\ default_frame_id = None
    /\ tasks = [c \in Callers |-> IdleTask]
    /\ overlap = FALSE
    /\ pool = "none"
    /\ runner = IdleRunner
    /\ factoid_sources = <<>>
    /\ scan = IdleScan
    /\ dates = NoDates
    /\ applied = NoCall
    /\ cli \in {StartCli(c, lim) : c \in Commands, lim \in RunLimits}

NextCli ==
    \/ cli_run
    \/ run_connect
    \/ run_get_ia
    \/ run_open_input
    \/ run_item
    \/ run_return
    \/ cli_print_stats
    \/ cli_raised
    \/ cli_mvp_summary

SpecCli == InitCli /\ [][NextCli]_vars

\* Two callers, one call each, their requests to the store in any order.
NextRace == \E c \in Callers : call_lookup(c) \/ call_insert(c)

SpecRace == InitResolver /\ [][NextRace]_vars

---------------------------------------------------------------------------
(* Helpers of the properties.                                              *)

Count(seq, v) == Cardinality({k \in 1..Len(seq) : seq[k] = v})

\* the input of the run in progress, and its edge records in input order
Input == Truncate(places, limit)
InputEdges == CollectAll(Input)

\* ids of the places of the input that have a title and an id: the places a node
\* pass is to create or match
NodeIds == {Input[k].id : k \in {j \in 1..Len(Input) :
                                   Truthy(Input[j].title) /\ Truthy(Input[j].id)}}

\* edge records of the input whose two endpoints are such places and whose
\* labels are strings
Resolvable(edge) ==
    /\ edge[1] \in NodeIds
    /\ _extract_pleiades_id(edge[2].connectsTo) \in NodeIds
    /\ edge[2].connectionType # NoneTok
    /\ edge[2].associationCertainty # NoneTok

\* a stored Location whose historical names carry the marker of a place id
Marked(id) == Lists(locations, <<PREFIX>> \o id)

FirstRunNodePassOver == run = 1 /\ pc \in {"connections", "done"} /\ spc = "idle"
FirstRunOver == run = 1 /\ pc = "done" /\ spc = "idle"

---------------------------------------------------------------------------
(* C1.  Under a single sequential writer, for every external identifier e  *)
(* and named field bundles: of two create_location calls carrying e, the   *)
(* first made while no stored Location lists e, both return the same id,   *)
(* the first moves locations_created by 1 and the second locations_skipped *)
(* by 1, neither raises; and the store never holds two Locations whose     *)
(* historical names contain e.                                             *)
C1_Idempotent ==
    /\ \A k \in 1..Len(calls) : \A m \in (k + 1)..Len(calls) :
         LET a == calls[k]
             b == calls[m]
         IN (Truthy(a.external_id) /\ b.external_id = a.external_id
             /\ a.named /\ b.named /\ ~a.held)
            => /\ a.kind = "created" /\ a.created = 1 /\ a.skipped = 0
               /\ b.kind = "existing" /\ b.created = 0 /\ b.skipped = 1
               /\ b.ret = a.ret /\ a.ret # 0
    /\ \A e \in ExternalIds : Cardinality(Lists(locations, e)) <= 1

---------------------------------------------------------------------------
(* C2.  In the edge pass, a pending edge whose "from" or "to" external id  *)
(* is absent from the cache is never inserted and is counted under         *)
(* skipped-missing; every Connection an edge pass commits has both         *)
(* endpoints resolved to canonical ids from the cache.  The script's pass  *)
(* is followed edge by edge; the body of the in-adapter loop, which no     *)
(* gazetteer run enters, is evaluated on the script's cache and edges.     *)
ScriptTo(k) == extract_pleiades_id(all_connections[k][2].connectsTo)

\* the edge whose insert gave the r-th Connection row of the script's pass
CreatedEdge(r) ==
    CHOOSE k \in 1..Len(slog) :
        slog[k] = "created" /\ Count(SubSeq(slog, 1, k), "created") = r

C2_NoPartialEdge ==
    /\ \A k \in 1..Len(slog) :
         (all_connections[k][1] \notin DOMAIN location_cache
            \/ ScriptTo(k) \notin DOMAIN location_cache)
         => slog[k] = "missing"
    /\ sstats.connections_skipped_missing = Count(slog, "missing")
    /\ Len(connections) = Count(slog, "created") + edge_counts.success
    /\ edge_counts.success = 0 =>
         \A r \in 1..Len(connections) :
            LET k == CreatedEdge(r)
            IN /\ all_connections[k][1] \in DOMAIN location_cache
               /\ ScriptTo(k) \in DOMAIN location_cache
               /\ connections[r].from_entity_id = location_cache[all_connections[k][1]]
               /\ connections[r].to_entity_id = location_cache[ScriptTo(k)]
    /\ \A r \in 1..Len(connections) :
         /\ connections[r].from_entity_id \in 1..Len(locations)
         /\ connections[r].to_entity_id \in 1..Len(locations)
    /\ \A k \in 1..Len(slog) :
         LET f == all_connections[k][1]
             to == _extract_pleiades_id(all_connections[k][2].connectsTo)
         IN \A r \in _process_connections(location_cache, f, all_connections[k][2]) :
              /\ (f \notin DOMAIN location_cache \/ to \notin DOMAIN location_cache)
                   => (r.bucket = "missing" /\ r.rows = <<>>)
              /\ \A m \in 1..Len(r.rows) :
                   /\ f \in DOMAIN location_cache /\ to \in DOMAIN location_cache
                   /\ r.rows[m].from_entity_id = location_cache[f]
                   /\ r.rows[m].to_entity_id = location_cache[to]

\* a script pass that skipped one edge for a missing endpoint and committed another
C2_Witness ==
    /\ spc = "done"
    /\ Count(slog, "missing") > 0
    /\ Count(slog, "created") > 0
    /\ \E k \in 1..Len(slog) :
         /\ slog[k] = "missing"
         /\ all_connections[k][1] \in DOMAIN location_cache
         /\ ScriptTo(k) \notin DOMAIN location_cache

---------------------------------------------------------------------------
(* C3.  In one gazetteer run, every edge record whose both endpoints exist *)
(* as Locations is committed exactly once as a Connection between those    *)
(* two Locations, with the confidence of the certainty table (the store    *)
(* refusing no insert).                                                    *)
SameEdge(e, f) ==
    /\ f[1] = e[1]
    /\ _extract_pleiades_id(f[2].connectsTo) = _extract_pleiades_id(e[2].connectsTo)
    /\ f[2].connectionType = e[2].connectionType
    /\ f[2].associationCertainty = e[2].associationCertainty

Committed(e) ==
    {r \in 1..Len(connections) :
        /\ connections[r].from_entity_id \in Marked(e[1])
        /\ connections[r].to_entity_id \in Marked(_extract_pleiades_id(e[2].connectsTo))
        /\ connections[r].connection_type = _map_connection_type(e[2].connectionType)
        /\ connections[r].confidence
             = _map_certainty_to_confidence(e[2].associationCertainty)}

C3_EdgesCommitted ==
    (FirstRunOver /\ edge_counts.skipped_error = 0) =>
      \A k \in 1..Len(InputEdges) :
         LET e == InputEdges[k]
         IN (Resolvable(e) /\ Marked(e[1]) # {}
               /\ Marked(_extract_pleiades_id(e[2].connectsTo)) # {})
            => Cardinality(Committed(e))
                 = Cardinality({j \in 1..Len(InputEdges) : SameEdge(e, InputEdges[j])})

---------------------------------------------------------------------------
(* C4.  In a gazetteer run no Connection is inserted before the node pass  *)
(* has finished, so that an edge that references a place later in the      *)
(* input is resolved like one that references an earlier place: it is in   *)
(* the queue of the edge pass and both its endpoints are in the cache.     *)
Position(id) ==
    {k \in 1..Len(Input) : Input[k].id = id /\ Truthy(Input[k].title)}

ForwardEdge(e) ==
    /\ Resolvable(e)
    /\ \E k \in Position(e[1]) :
         \A j \in Position(_extract_pleiades_id(e[2].connectsTo)) : k < j

---------------------------------------------------------------------------
(* C5.  Ingesting, into an empty store, one named place with external id   *)
(* 1 that carries one connection 1 -> 2, where 2 is never ingested, ends   *)
(* with one Location, no Connection, and a report with locations_created   *)
(* 1, connections_created 0 and connections_skipped_missing 1.             *)
C5_File ==
    <<[id |-> <<"1">>, title |-> <<"Roma">>,
       connections |-> <<[connectsTo |-> Url(<<"2">>), connectionType |-> "near",
                          associationCertainty |-> "certain"]>>]>>

C5_Scenario ==
    (places = C5_File /\ store0 = <<>> /\ FirstRunOver) =>
      /\ Len(locations) = 1
      /\ connections = <<>>
      /\ reports[1].locations_created = 1
      /\ reports[1].connections_created = 0
      /\ "connections_skipped_missing" \in DOMAIN reports[1]
      /\ reports[1].connections_skipped_missing = 1

---------------------------------------------------------------------------
---------------------------------------------------------------------------
(* C7.  When an edge pass completes, every pending edge it was given is in *)
(* exactly one of the buckets created, skipped-missing, skipped-error, so  *)
(* the three counts add up to the number of pending edges; an exception    *)
(* while inserting one edge moves only that edge to skipped-error and the  *)
(* following edges are still processed.  The script's pass is followed    *)
(* edge by edge; the body of the in-adapter loop is evaluated on the       *)
(* script's cache and edges.                                               *)
C7_ThreeBuckets ==
    /\ sstats.connections_created = Count(slog, "created")
    /\ sstats.connections_skipped_missing = Count(slog, "missing")
    /\ sstats.connections_skipped_error = Count(slog, "error")
    /\ Len(slog) = si - 1
    /\ (spc = "done" /\ DOMAIN location_cache # {}) =>
         /\ Len(slog) = Len(all_connections)
         /\ all_connections = Truncate(CollectAll(places), limit)
         /\ sstats.connections_created + sstats.connections_skipped_missing
              + sstats.connections_skipped_error = Len(all_connections)
    /\ pc = "done" =>
         edge_counts.success + edge_counts.skipped_missing + edge_counts.skipped_error
           = Len(pending_connections)
    /\ \A k \in 1..Len(slog) :
         \A r \in _process_connections(location_cache, all_connections[k][1],
                                       all_connections[k][2]) :
            /\ r.bucket \in {"created", "missing", "error"}
            /\ Len(r.rows) = IF r.bucket = "created" THEN 1 ELSE 0

\* a completed script pass in which an insert failed and the next edge was committed
C7_Witness ==
    /\ spc = "done"
    /\ \E k \in 1..(Len(slog) - 1) : slog[k] = "error" /\ slog[k + 1] = "created"

---------------------------------------------------------------------------
(* C8.  After the node pass the pending-edge queue holds exactly one entry *)
(* (source external id, raw edge payload), in input order, for every       *)
(* connection record of every processed place, whether the place's node    *)
(* was created, matched, skipped for lack of a name, or failed.            *)
C8_QueueComplete == FirstRunNodePassOver => pending_connections = InputEdges

---------------------------------------------------------------------------
---------------------------------------------------------------------------
(* C10.  After a node pass, rebuilding the cache by scanning the store     *)
(* for markers gives, for the places of that node pass, the same external  *)
(* id -> canonical id map as the in-memory cache.                          *)
C10_ScanEqualsCache ==
    FirstRunNodePassOver =>
      \A id \in NodeIds :
         Get(build_location_cache(locations), id) = Get(location_id_cache, id)

---------------------------------------------------------------------------
(* C11.  create_actor with a primary name of 2 or more characters: if a    *)
(* stored Actor has the external id among its aliases its id is returned;  *)
(* else if a stored Actor has exactly the primary name its id is returned; *)
(* else an Actor whose aliases contain the external id is inserted.  Of    *)
(* two sequential calls with the same external id both return the same     *)
(* id, and the second moves actors_skipped by 1 and actors_created by 0.   *)
AliasListed(acts, e) ==
    {k \in 1..Len(acts) :
        \E j \in 1..Len(acts[k].name_aliases) : acts[k].name_aliases[j] = Str(e)}

ValidActorCall(c) ==
    c.op = "create_actor" /\ Truthy(c.bundle.name_primary) /\ Len(c.bundle.name_primary) >= 2

\* the rows of actors after the k-th call
ActorsAfter(k) == IF k < Len(calls) THEN calls[k + 1].held ELSE actors

C11_ActorOrder ==
    /\ \A k \in 1..Len(calls) :
         LET c == calls[k]
             e == c.bundle.external_id
             byId == IF Truthy(e) THEN AliasListed(c.held, e) ELSE {}
             byName == ActorsNamed(c.held, c.bundle.name_primary)
         IN ValidActorCall(c) =>
              IF byId # {}
              THEN c.kind = "existing" /\ c.ret \in {c.held[j].id : j \in byId}
              ELSE IF byName # {}
              THEN c.kind = "existing" /\ c.ret \in {c.held[j].id : j \in byName}
              ELSE /\ c.kind = "created" /\ c.created = 1 /\ c.skipped = 0
                   /\ Len(ActorsAfter(k)) = Len(c.held) + 1
                   /\ ActorsAfter(k)[c.ret].name_primary = c.bundle.name_primary
                   /\ Truthy(e) => c.ret \in AliasListed(ActorsAfter(k), e)
    /\ \A k \in 1..Len(calls) : \A m \in (k + 1)..Len(calls) :
         (ValidActorCall(calls[k]) /\ ValidActorCall(calls[m])
            /\ Truthy(calls[k].bundle.external_id)
            /\ calls[m].bundle.external_id = calls[k].bundle.external_id)
         => /\ calls[m].ret = calls[k].ret /\ calls[k].ret # 0
            /\ calls[m].created = 0 /\ calls[m].skipped = 1

---------------------------------------------------------------------------
(* C12.  Of two sequential create_source calls that carry the same         *)
(* external identifier and a non-empty title, both return the same Source  *)
(* id, and the second moves sources_skipped by 1 and sources_created by 0. *)
ValidSourceCall(c) == c.op = "create_source" /\ Truthy(c.bundle.title)

C12_SourceIdempotent ==
    \A k \in 1..Len(calls) : \A m \in (k + 1)..Len(calls) :
       (ValidSourceCall(calls[k]) /\ ValidSourceCall(calls[m])
          /\ Truthy(calls[k].bundle.external_id)
          /\ calls[m].bundle.external_id = calls[k].bundle.external_id)
       => /\ calls[m].ret = calls[k].ret /\ calls[k].ret # 0
          /\ calls[m].created = 0 /\ calls[m].skipped = 1

---------------------------------------------------------------------------
(* C13.  create_source with a non-empty title: a stored Source with the    *)
(* same digital URL (when a URL is given) is returned; else a stored       *)
(* Source with the same title and the same author, a call without author   *)
(* matching only Sources without author; else a Source is inserted.  Every *)
(* stored Source has extraction_status "pending".                          *)
SourcesAfter(k) == IF k < Len(calls) THEN calls[k + 1].held ELSE sources

C13_SourceOrder ==
    /\ \A k \in 1..Len(calls) :
         LET c == calls[k]
             b == c.bundle
             byUrl == IF Truthy(b.digital_url)
                      THEN {j \in 1..Len(c.held) : c.held[j].digital_url = b.digital_url}
                      ELSE {}
             byTitle == {j \in 1..Len(c.held) :
                           c.held[j].title = b.title /\ c.held[j].author_id = b.author_id}
         IN ValidSourceCall(c) =>
              IF byUrl # {}
              THEN c.kind = "existing" /\ c.ret \in {c.held[j].id : j \in byUrl}
              ELSE IF byTitle # {}
              THEN c.kind = "existing" /\ c.ret \in {c.held[j].id : j \in byTitle}
              ELSE /\ c.kind = "created" /\ c.created = 1 /\ c.skipped = 0
                   /\ Len(SourcesAfter(k)) = Len(c.held) + 1
                   /\ SourcesAfter(k)[c.ret].title = b.title
                   /\ SourcesAfter(k)[c.ret].author_id = b.author_id
                   /\ SourcesAfter(k)[c.ret].digital_url = b.digital_url
    /\ \A j \in 1..Len(sources) : sources[j].extraction_status = "pending"

\* a call without author was inserted although a Source with its title and an
\* author was stored, and a later call was resolved by URL under another title
C13_Witness ==
    /\ \E k \in 1..Len(calls) :
         /\ calls[k].kind = "created"
         /\ calls[k].bundle.author_id = None
         /\ \E j \in 1..Len(calls[k].held) :
              /\ calls[k].held[j].title = calls[k].bundle.title
              /\ calls[k].held[j].author_id # None
    /\ \E k \in 1..Len(calls) :
         /\ calls[k].kind = "existing"
         /\ Truthy(calls[k].bundle.digital_url)
         /\ \E j \in 1..Len(calls[k].held) :
              /\ calls[k].held[j].id = calls[k].ret
              /\ calls[k].held[j].digital_url = calls[k].bundle.digital_url
              /\ calls[k].held[j].title # calls[k].bundle.title

---------------------------------------------------------------------------
(* C14.  A create_location, create_actor or create_source call that ends   *)
(* in a dedup hit or in a validation skip leaves every stored row          *)
(* unchanged and adds no row, also when the call carries field values      *)
(* that differ from the matched row's.                                     *)
C14_NoUpdateOnHit ==
    [][(calls' # calls /\ calls'[Len(calls')].kind \in {"existing", "skipped"})
         => (locations' = locations /\ actors' = actors /\ sources' = sources)]_vars

\* the last call was a dedup hit on a row whose fields differ from the call's:
\* an Actor of another type, or a Source of another title and type
C14_Witness ==
    /\ calls # <<>>
    /\ LET c == calls[Len(calls)]
       IN /\ c.kind = "existing"
          /\ "op" \in DOMAIN c
          /\ \/ /\ c.op = "create_actor"
                /\ actors[c.ret].actor_type # c.bundle.actor_type
             \/ /\ c.op = "create_source"
                /\ sources[c.ret].source_type # c.bundle.source_type
                /\ sources[c.ret].title # c.bundle.title

---------------------------------------------------------------------------
(* C15.  The dedup check and the insert of a create operation are not      *)
(* atomic: two callers with the same external identifier can both find     *)
(* nothing and both insert, both counting "created"; under the single      *)
(* sequential writer (no call begins while another is in progress) this    *)
(* state is unreachable.                                                   *)
BothCreated ==
    /\ \A c \in Callers : tasks[c].pc = "done" /\ tasks[c].kind = "created"
    /\ \A c, d \in Callers :
         tasks[c].op = tasks[d].op
         /\ tasks[c].bundle.external_id = tasks[d].bundle.external_id

C15_SequentialNoDuplicate == BothCreated => overlap

---------------------------------------------------------------------------
(* C16.  Validation boundaries.  create_factoid skips and writes nothing   *)
(* for every description shorter than 10 characters (None and the empty    *)
(* one included) and inserts for every description of 10 or more;          *)
(* create_actor skips and writes nothing for every primary name shorter    *)
(* than 2 characters and does not skip a name of 2 or more; a rejected     *)
(* call adds one to the skipped counter of its type.                       *)
Shorter(text, n) == ~Truthy(text) \/ Len(text) < n

Rejected(c, st, st2, counter) ==
    /\ c.kind = "skipped" /\ c.ret = 0
    /\ st2 = Bump(st, counter)

C16_Boundaries ==
    [][calls' # calls =>
        LET c == calls'[Len(calls')] IN
        /\ c.op = "create_factoid" =>
             IF Shorter(c.bundle.description, 10)
             THEN Rejected(c, stats, stats', "factoids_skipped") /\ factoids' = factoids
             ELSE /\ c.kind = "created"
                  /\ Len(factoids') = Len(factoids) + 1
                  /\ factoids'[Len(factoids')].description = c.bundle.description
        /\ c.op = "create_actor" =>
             IF Shorter(c.bundle.name_primary, 2)
             THEN Rejected(c, stats, stats', "actors_skipped") /\ actors' = actors
             ELSE c.kind # "skipped"
        /\ c.kind = "skipped" => (factoids' = factoids /\ actors' = actors)]_vars

\* a description of 9 characters was rejected and a primary name of 2 accepted
C16_Witness ==
    /\ \E k \in 1..Len(calls) :
         /\ calls[k].op = "create_factoid" /\ calls[k].kind = "skipped"
         /\ Truthy(calls[k].bundle.description) /\ Len(calls[k].bundle.description) = 9
    /\ \E k \in 1..Len(calls) :
         /\ calls[k].op = "create_actor" /\ calls[k].kind = "created"
         /\ Len(calls[k].bundle.name_primary) = 2
    /\ Len(actors) = 1 /\ factoids = <<>>

---------------------------------------------------------------------------
(* C17.  create_factoid never deduplicates: every call that passes         *)
(* validation inserts a new Factoid with a fresh id and adds one to        *)
(* factoids_created, also when a Factoid with the same fields is already   *)
(* stored; n valid calls add exactly n rows.                               *)
ValidFactoidCalls == {k \in 1..Len(calls) : ~Shorter(calls[k].bundle.description, 10)}

C17_AppendOnly ==
    /\ Len(factoids) = Cardinality(ValidFactoidCalls)
    /\ stats.factoids_created = Cardinality(ValidFactoidCalls)
    /\ \A k \in ValidFactoidCalls :
         /\ calls[k].kind = "created" /\ calls[k].created = 1
         /\ calls[k].ret = Len(calls[k].held) + 1
         /\ \A r \in 1..Len(calls[k].held) : calls[k].held[r].id # calls[k].ret
         /\ factoids[calls[k].ret].description = calls[k].bundle.description
    /\ \A r, q \in 1..Len(factoids) : factoids[r].id = factoids[q].id => r = q

\* three calls with the same fields left three rows
C17_Witness ==
    /\ Len(calls) = 3 /\ Len(factoids) = 3
    /\ \A k \in 1..3 : calls[k].bundle = calls[1].bundle

---------------------------------------------------------------------------
(* C18.  No store state holds a Location written by the resolver that has  *)
(* neither a modern name nor a historical name: create_location without a  *)
(* name and without historical names returns None, adds one to             *)
(* locations_skipped and inserts nothing, also when it carries an external *)
(* identifier.                                                             *)
HasName(row) ==
    \/ Truthy(row.name_modern)
    \/ \E k \in 1..Len(row.name_historical) :
         row.name_historical[k] \notin {Str(e) : e \in ExternalIds}

C18_NoNamelessLocation ==
    /\ \A r \in 1..Len(locations) : HasName(locations[r])
    /\ \A k \in 1..Len(calls) :
         ~calls[k].named => /\ calls[k].kind = "skipped" /\ calls[k].ret = 0
                            /\ calls[k].skipped = 1 /\ calls[k].created = 0
    /\ Len(locations) = Cardinality({k \in 1..Len(calls) : calls[k].kind = "created"})

\* a nameless call carrying an external identifier was skipped, next to a stored row
C18_Witness ==
    /\ \E k \in 1..Len(calls) :
         ~calls[k].named /\ Truthy(calls[k].external_id) /\ calls[k].kind = "skipped"
    /\ locations # <<>>

---------------------------------------------------------------------------
(* C19.  create_connection does not deduplicate: every call inserts a new  *)
(* Connection and adds one to connections_created, also when a Connection  *)
(* with the same endpoints and type is stored already; a second gazetteer  *)
(* run over unchanged input therefore stores every resolvable edge once    *)
(* more, on top of what the first run stored (the store refusing no        *)
(* insert of the second run).                                              *)
ResolvableEdges == {k \in 1..Len(InputEdges) : Resolvable(InputEdges[k])}

SecondRunOver == run = 2 /\ pc = "done" /\ spc = "idle"

---------------------------------------------------------------------------
(* C20.  create_placement called without an explicit frame while the run   *)
(* has no default reference frame returns None without attempting an       *)
(* insert and without raising; every placement that is inserted carries    *)
(* the explicitly given frame or the run's default frame.                  *)
PlacementCalls == {k \in 1..Len(calls) : calls[k].op = "create_placement"}

C20_NoFrameSkipped ==
    /\ \A k \in PlacementCalls :
         (~Truthy(calls[k].bundle.frame_id) /\ default_frame_id = None)
           => calls[k].kind = "skipped" /\ calls[k].ret = 0 /\ calls[k].created = 0
    /\ \A k \in PlacementCalls :
         calls[k].kind = "created" =>
           LET row == placements[calls[k].ret]
           IN \/ Truthy(calls[k].bundle.frame_id) /\ row.frame_id = calls[k].bundle.frame_id
              \/ default_frame_id # None /\ row.frame_id = default_frame_id

---------------------------------------------------------------------------
(* C21.  Every resolver create/skip operation that returns normally adds   *)
(* exactly 1 to exactly one counter of the run statistics: the "created"   *)
(* counter of its entity type when it inserted, the "skipped" counter of   *)
(* its entity type when it skipped.                                        *)
OpOf(c) == IF "op" \in DOMAIN c THEN c.op ELSE "create_location"

CreateOps == {"create_location", "create_actor", "create_source", "create_factoid",
              "create_placement", "create_connection"}

Entity(op) ==
    CASE op = "create_location"   -> "locations"
      [] op = "create_actor"      -> "actors"
      [] op = "create_source"     -> "sources"
      [] op = "create_factoid"    -> "factoids"
      [] op = "create_placement"  -> "placements"
      [] op = "create_connection" -> "connections"

\* the statistics with one more under a counter name, when the record has it
Counted(st, st2, name) == name \in DOMAIN st /\ st2 = Bump(st, name)

\* the counter names are the entity type followed by "_created" or "_skipped"
CounterName(entity, suffix) ==
    CASE entity = "locations" /\ suffix = "created"   -> "locations_created"
      [] entity = "locations" /\ suffix = "skipped"   -> "locations_skipped"
      [] entity = "actors" /\ suffix = "created"      -> "actors_created"
      [] entity = "actors" /\ suffix = "skipped"      -> "actors_skipped"
      [] entity = "sources" /\ suffix = "created"     -> "sources_created"
      [] entity = "sources" /\ suffix = "skipped"     -> "sources_skipped"
      [] entity = "factoids" /\ suffix = "created"    -> "factoids_created"
      [] entity = "factoids" /\ suffix = "skipped"    -> "factoids_skipped"
      [] entity = "placements" /\ suffix = "created"  -> "placements_created"
      [] entity = "placements" /\ suffix = "skipped"  -> "placements_skipped"
      [] entity = "connections" /\ suffix = "created" -> "connections_created"
      [] OTHER                                        -> "connections_skipped"

C21_OneCounter ==
    [][calls' # calls =>
        LET c == calls'[Len(calls')]
        IN (OpOf(c) \in CreateOps /\ c.kind \notin {"raised", "fatal"}) =>
             Counted(stats, stats',
                     CounterName(Entity(OpOf(c)),
                                 IF c.kind = "created" THEN "created" ELSE "skipped"))]_vars

---------------------------------------------------------------------------
(* C22.  A silent skip never counts as an error: a create operation that   *)
(* detects a duplicate or is given no name raises nothing and leaves the   *)
(* errors counter alone, so that a gazetteer run over input whose places   *)
(* are all stored already ends with errors = 0 (the store refusing no      *)
(* insert of the edge pass).                                               *)
AllStored ==
    \A k \in 1..Len(Input) :
       (Truthy(Input[k].title) /\ Truthy(Input[k].id))
         => Lists(store0, <<PREFIX>> \o Input[k].id) # {}

C22_SkipIsNoError ==
    (FirstRunOver /\ AllStored /\ edge_counts.skipped_error = 0)
      => reports[1].errors = 0

---------------------------------------------------------------------------
(* C23.  In every adapter an exception raised while processing one record  *)
(* is caught at that record's boundary, adds exactly 1 to the errors       *)
(* counter and does not stop the run: every later record of the input is   *)
(* still processed and the run returns its report.  (For the classical     *)
(* texts the records are the author directories and, inside an author      *)
(* whose Actor was created, its works.)                                    *)
KindOf(r, v) ==
    IF r.adapter = "perseus"
    THEN IF v[2] = 0 THEN r.items[v[1]].actor ELSE r.items[v[1]].works[v[2]]
    ELSE r.items[v]

\* the records of the input the loops are to visit
Records(r) ==
    IF r.adapter = "perseus"
    THEN {<<k, 0>> : k \in 1..Len(r.items)}
         \cup UNION {{<<k, w>> : w \in 1..Len(r.items[k].works)} :
                        k \in {a \in 1..Len(r.items) : r.items[a].actor = "ok"}}
    ELSE 1..Len(r.items)

Started == runner.pc \in {"items", "works", "finishing", "returned", "raised"}

C23_ItemBoundary ==
    Started =>
      /\ stats.errors = Cardinality({j \in 1..Len(runner.visited) :
                                       KindOf(runner, runner.visited[j]) = "raises"})
      /\ \A j, m \in 1..Len(runner.visited) :
           runner.visited[j] = runner.visited[m] => j = m
      /\ runner.pc = "raised" => runner.visited = <<>>
      /\ runner.pc = "returned" =>
           /\ runner.result = "report"
           /\ (runner.adapter = "pleiades" \/ ~LimitSet(runner.lim))
                => {runner.visited[j] : j \in 1..Len(runner.visited)} = Records(runner)

\* a run whose first record raised processed the second one and returned
C23_Witness ==
    /\ runner.pc = "returned" /\ runner.adapter = "nasa_eclipse"
    /\ runner.items = <<"raises", "ok">> /\ runner.lim = <<>>
    /\ runner.visited = <<1, 2>> /\ stats.errors = 1

---------------------------------------------------------------------------
(* C24.  Every resolver operation invoked before the store connection is   *)
(* established raises a fatal error, whatever its arguments (also those    *)
(* the validation would skip), and leaves every counter and the store      *)
(* unchanged.                                                              *)
C24_FatalBeforeConnect ==
    [][(calls' # calls /\ pool = "none") =>
         /\ calls'[Len(calls')].kind = "fatal"
         /\ stats' = stats
         /\ <<locations, actors, sources, factoids, placements, factoid_sources,
              connections>>' =
            <<locations, actors, sources, factoids, placements, factoid_sources,
              connections>>]_vars

\* without a pool, a create_factoid call without description and a
\* link_factoid_source call both ended in the fatal error
C24_Witness ==
    /\ pool = "none"
    /\ \E k \in 1..Len(calls) :
         /\ OpOf(calls[k]) = "create_factoid" /\ calls[k].kind = "fatal"
         /\ ~Truthy(calls[k].bundle.description)
    /\ \E k \in 1..Len(calls) :
         OpOf(calls[k]) = "link_factoid_source" /\ calls[k].kind = "fatal"

---------------------------------------------------------------------------
(* C25.  In every adapter run, once the store connection has been          *)
(* acquired it is released exactly once before ingest returns or raises,   *)
(* whatever happens in between: no run ends with the connection open.      *)
RunOver == runner.pc \in {"returned", "raised"}

C25_Released ==
    RunOver => /\ pool # "open"
               /\ pool = "closed" => runner.closes = 1


---------------------------------------------------------------------------
(* C26: the paged scan of build_location_cache.                            *)

\* how many times the scan has looked at the Location with this id
Visits(id) == Cardinality({j \in 1..Len(scan.visited) : scan.visited[j] = id})

\* the scan has ended
ScanOver == scan.pc = "done"

\* C26: when the paged scan has ended over a store that did not change, it has
\* visited every stored Location exactly once.
C26_VisitsEachOnce ==
    ScanOver => \A k \in 1..Len(locations) : Visits(locations[k].id) = 1


---------------------------------------------------------------------------
(* C27: the item-count limit of a run.                                     *)

\* the adapters whose input is one sequence of records
FlatLimited == {"pleiades", "nasa_eclipse"}

\* C27: in a run with limit N, no record after the N-th of the input is passed to
\* the resolver, also when some of the first N records fail or are skipped.
C27_LimitTruncates ==
    (runner.pc # "idle" /\ runner.adapter \in FlatLimited /\ runner.lim # <<>>)
        => \A j \in 1..Len(runner.handled) : runner.handled[j] <= runner.lim[1]


---------------------------------------------------------------------------
(* C28: the gazetteer run without its input file.                          *)

\* a gazetteer run whose data directory holds no file matching the pattern has
\* ended, and its connect had returned
NoFileRunOver ==
    /\ RunOver
    /\ runner.adapter = "pleiades"
    /\ runner.input = "missing"
    /\ runner.result \notin {"connect failed", "frame read failed"}

\* C28: a gazetteer run that finds no file matching the filename pattern ends with
\* FileNotFoundError before any item is processed: nothing is written, every
\* counter is 0 and the store connection has been released.
C28_FailsFast ==
    NoFileRunOver =>
        /\ runner.pc = "raised" /\ runner.result = "FileNotFoundError"
        /\ runner.visited = <<>> /\ runner.handled = <<>>
        /\ locations = store0 /\ connections = <<>>
        /\ stats = InitStats
        /\ pool = "closed" /\ runner.closes = 1

C28_Witness ==
    /\ NoFileRunOver
    /\ runner.result = "FileNotFoundError"
    /\ Len(runner.items) > 0
    /\ pool = "closed"


---------------------------------------------------------------------------
(* C29: the round trip of a date through make_date_string and              *)
(* _format_date_display.                                                   *)

Encoded == dates.pc \in {"encoded", "displayed"}
Displayed == dates.pc = "displayed"

\* the literal is 'YYYY-MM-DD' of |year|, month and day, each zero-padded
PaddedLiteral(lit, year, month, day) ==
    /\ Len(lit) >= 10
    /\ lit[5] = "-" /\ lit[8] = "-"
    /\ \A k \in {1, 2, 3, 4, 6, 7, 9, 10} : lit[k] \in Digits
    /\ int(SubSeq(lit, 1, 4)) = abs(year)
    /\ int(SubSeq(lit, 6, 7)) = month
    /\ int(SubSeq(lit, 9, 10)) = day

\* the era suffix follows the ten characters exactly when the year is not positive
SuffixIffNotPositive(lit, year) ==
    IF year <= 0 THEN SubSeq(lit, 11, Len(lit)) = BC ELSE Len(lit) = 10

---------------------------------------------------------------------------
(* C30: the two year-to-literal encoders.                                  *)

PeriodEncoded == dates.pc # "idle" /\ dates.period # <<>>

\* C30: for every year around 0 the gazetteer adapter's encoder gives the literal
\* the eclipse adapter's encoder gives for that year at month 1, day 1, with the
\* era suffix for every non-positive year, year 0 included.
C30_SameLiteral ==
    PeriodEncoded =>
        /\ dates.period = make_date_string(dates.year, 1, 1)
        /\ dates.year <= 0 => endswith(dates.period, BC)


---------------------------------------------------------------------------
(* C31: totality of the taxonomy mappers.                                  *)

Called(fn) == applied.fn = fn
\* the argument is a string, not JSON null
OnString(fn) == Called(fn) /\ applied.arg # NoneTok
AllKeywords == UNION {place_type_rules[k].keys : k \in 1..Len(place_type_rules)}
Unmatched(place_types) ==
    \A x \in AllKeywords : \A k \in 1..Len(place_types) :
        ~Occurs(x, lower(place_types[k]))
Namespaces == {"spatial:", "temporal:", "route:", "identity:", "admin:"}
KnownTypes ==
    spatial_types \cup temporal_types \cup route_types \cup identity_types
    \cup administrative_types

---------------------------------------------------------------------------
(* C32: the entity types an adapter creates.                               *)

\* some record of the run has been processed without exception
SomeCreated ==
    \E n \in {"locations_created", "actors_created", "sources_created",
              "factoids_created", "placements_created", "connections_created"} :
        stats[n] > 0

\* C32: in every state of a gazetteer run actors_created, sources_created,
\* factoids_created and placements_created are 0; in every state of a text-library
\* run factoids_created and locations_created are 0; in every state of a
\* digitized-book-catalog run every created counter other than sources_created
\* is 0.
C32_DeclaredTypes ==
    runner.pc # "idle" =>
      /\ runner.adapter = "pleiades" =>
           /\ stats.actors_created = 0 /\ stats.sources_created = 0
           /\ stats.factoids_created = 0 /\ stats.placements_created = 0
      /\ runner.adapter = "perseus" =>
           stats.factoids_created = 0 /\ stats.locations_created = 0
      /\ runner.adapter = "internet_archive" =>
           /\ stats.locations_created = 0 /\ stats.actors_created = 0
           /\ stats.factoids_created = 0 /\ stats.placements_created = 0
           /\ stats.connections_created = 0

C32_Witness ==
    /\ runner.pc = "returned"
    /\ runner.adapter = "perseus"
    /\ stats.actors_created > 0 /\ stats.sources_created > 0


---------------------------------------------------------------------------
(* C33: the exit of the command-line script after an adapter failed.       *)

CliExited == cli.pc = "exited"

\* C33: for every command, when an adapter has raised an unhandled exception, the
\* run report of that adapter is logged and the process exits with a non-zero
\* status.
C33_ReportThenNonZero ==
    (CliExited /\ cli.raised # {}) =>
        /\ cli.status # 0
        /\ \A a \in cli.raised :
             \E j \in 1..Len(cli.logged) : cli.logged[j] = <<a, "report">>


---------------------------------------------------------------------------
(* C34: the order of the place-type cascade.                               *)

\* the rules in the order region, island/peninsula, road/wall/aqueduct/canal,
\* river, settlement, religious, military, port, resource, civic, funerary,
\* mountain, lake/spring, bay/gulf/sea, cape
StatedOrder == <<1, 2, 4, 5, 6, 7, 8, 9, 10, 11, 12, 13, 14, 3, 15>>
StatedRules == [k \in 1..Len(StatedOrder) |-> place_type_rules[StatedOrder[k]]]

\* C34: the place-type mapper returns the result of the first rule, in the stated
\* order, whose keyword occurs in the type list; a list matching a settlement or
\* port keyword and a bay/gulf/sea keyword maps to the point rule.
C34_StatedCascade ==
    Called("_map_place_types") => applied.out = Cascade(StatedRules, applied.arg)


---------------------------------------------------------------------------
(* C35: the two code paths of the gazetteer loader.                        *)

Loaded(fn) == Called(fn) /\ ~applied.raised
SameOutcome(r) == applied.raised = r.raised /\ (~r.raised => applied.out = r.out)
Malformed(data) ==
    ~has(data, "@graph") /\ data.top # "array" /\ ~has(data, "places")

\* C35: for every file structure a load on the streaming path ends as a load of
\* the same file on the in-memory path ends, and a load of a malformed structure
\* raises on either path.
C35_SamePlaces ==
    /\ Called("_load_places_streaming") =>
           SameOutcome(_load_places_full(applied.arg))
    /\ Called("_load_places_full") =>
           SameOutcome(_load_places_streaming(applied.arg))
    /\ (applied.fn # "none" /\ Malformed(applied.arg)) => applied.raised

---------------------------------------------------------------------------
(* C36: one Source for every processed work of the text library.           *)

\* the (title, author) pairs of the works processed so far
ProcessedPairs ==
    UNION {{<<work_title(calls[k].bundle.processed[j]), calls[k].bundle.author_id>> :
               j \in 1..Len(calls[k].bundle.processed)} : k \in 1..Len(calls)}

\* C36: in a text-library run against an empty store sources_created equals the
\* number of distinct (title, author) pairs of the processed works, and each of
\* them is a row of sources.
C36_SourcePerWork ==
    /\ stats.sources_created = Cardinality(ProcessedPairs)
    /\ Len(sources) = Cardinality(ProcessedPairs)

---------------------------------------------------------------------------
(* C37: gazetteer records without a source identifier.                     *)

NodePassOver == pc \in {"connections", "done"}
\* two processed records with titles that differ, both without an id
IdlessPair(input, a, b) ==
    /\ a < b
    /\ ~Truthy(input[a].id) /\ ~Truthy(input[b].id)
    /\ Truthy(input[a].title) /\ Truthy(input[b].title)
    /\ input[a].title # input[b].title
\* rows the runs have added to the store
NewRows == {k \in 1..Len(locations) : k > Len(store0)}

\* C37: after the node pass two records without an id and with different titles
\* are two distinct rows of locations, and neither the cache of the run nor a
\* cache rebuilt from the store has an entry for the missing id.
C37_IdlessDistinct ==
    NodePassOver =>
        LET input == Truncate(places, limit)
        IN \A a, b \in 1..Len(input) :
             IdlessPair(input, a, b) =>
                /\ \E x, y \in NewRows :
                     /\ x # y
                     /\ locations[x].name_modern = input[a].title
                     /\ locations[y].name_modern = input[b].title
                /\ <<>> \notin DOMAIN location_id_cache
                /\ <<>> \notin DOMAIN build_location_cache(locations)

---------------------------------------------------------------------------
(* C38: the counters of the gazetteer node pass.                           *)

NodeCounters == {"locations_created", "locations_skipped", "errors"}
NodeSum(st) == st.locations_created + st.locations_skipped + st.errors
\* one counter of the three is one higher, every other counter is as it was
MovesOne(before, after) ==
    \E c \in NodeCounters : after = [before EXCEPT ![c] = @ + 1]

\* C38: every place processed in the node pass moves exactly one of
\* locations_created, locations_skipped, errors by 1 and no other counter, and
\* the step that ends the node pass leaves the three summing to the number of
\* places processed.
C38_OneCounterPerPlace ==
    [][pc = "locations" =>
          IF i' = i + 1
          THEN MovesOne(stats, stats')
          ELSE stats' = stats /\ NodeSum(stats') = Len(Truncate(places, limit))]_vars

\* a node pass over a place without title and a place with one has ended
C38_Witness ==
    /\ pc = "connections"
    /\ Len(Truncate(places, limit)) = 2
    /\ stats.locations_skipped = 1
    /\ NodeSum(stats) = 2

---------------------------------------------------------------------------
(* C39: an eclipse as a unit.                                              *)

EclipseRunOver == pool = "none" /\ calls # <<>>
Placed(f) == \E r \in 1..Len(placements) : placements[r].factoid_id = f
Linked(f, src) ==
    \E r \in 1..Len(factoid_sources) :
        factoid_sources[r].factoid_id = f /\ factoid_sources[r].source_id = src

\* C39: when an eclipse run has ended every Factoid it created has a placement
\* and a link to the catalog Source, and an eclipse whose processing raised has
\* left no Factoid counted as created.
C39_EclipseUnit ==
    EclipseRunOver =>
        /\ \A f \in 1..Len(factoids) :
             Placed(factoids[f].id) /\ Linked(factoids[f].id, calls[1].ret)
        /\ \A k \in 1..Len(calls) : calls[k].kind = "raised" => calls[k].created = 0

====
